---- MODULE Spec2Model ----
(***************************************************************************)
(* AgriPredict AI backend (database variant, src/models/Notification.js    *)
(* lines 31-862; the in-memory variant src/server.js has the same          *)
(* middleware and login code).                                             *)
(*                                                                         *)
(* A request runs through the middleware chain of its route in the step    *)
(* that receives it (the chain is synchronous code); every "await" of a    *)
(* handler on the store is a separate step, so concurrent requests and the *)
(* startup seeding interleave at exactly those points.                     *)
(***************************************************************************)
EXTENDS Integers, Sequences, FiniteSets, TLC

VARIABLES
    users,          \* table "users": sequence of rows, in insertion order
    nextUserId,     \* AUTO_INCREMENT counter of users.id
    notifications,  \* table "notifications"
    predictions,    \* table "predictions"
    chat_history,   \* table "chat_history"
    seedPc,         \* position of testDatabaseConnection / createDefaultUsers
    reqs,           \* requests in flight (and answered, until released)
    nreq,           \* number of requests received so far
    now,            \* Date.now(), in milliseconds
    nadv,           \* number of clock advances so far
    issued,         \* tokens handed out by login (what clients can hold)
    loggedOut,      \* tokens POST /api/logout has answered 200 to (history only)
    dbUp,           \* whether the database answers (sequelize connection)
    hits,           \* express-rate-limit store: requests counted per limiter
    resetTime,      \* express-rate-limit store: end of the window per limiter
    NODE_ENV        \* process.env.NODE_ENV || 'development'

vars == <<users, nextUserId, notifications, predictions, chat_history,
          seedPc, reqs, nreq, now, nadv, issued, loggedOut, dbUp, hits, resetTime,
          NODE_ENV>>

-----------------------------------------------------------------------------
(* Bounds of the model                                                     *)

MaxReqs == 2

MaxAdvances == 2

-----------------------------------------------------------------------------
(* Values                                                                  *)

\* An e-mail address local@domain; an input that is no address has no domain.
Email(l, d) == [local |-> l, domain |-> d]

NoEmail == Email("", "")

\* String.prototype.toLowerCase on the strings the model uses.
ToLower(s) ==
    CASE s = "Admin" -> "admin"
      [] s = "ANN" -> "ann"
      [] s = "Farm.org" -> "farm.org"
      [] OTHER -> s

\* validator.js isEmail: a non-empty local part, an "@", a non-empty domain.
isEmail(e) == e.local # "" /\ e.domain # ""

\* validator.js normalizeEmail with its defaults: the domain and (all_lowercase)
\* the local part are lower-cased; no model address is on a provider with
\* further rewriting (gmail, outlook, yahoo, icloud).
normalizeEmail(e) == Email(ToLower(e.local), ToLower(e.domain))

NoUser == [id |-> 0, name |-> "", email |-> NoEmail, role |-> ""]

AdminEmail == Email("admin", "agripredict.com")

FarmerEmail == Email("farmer", "example.com")

\* bcrypt keys Blowfish with 18 words of the password: the bytes after the
\* 72nd do not enter the digest.
BcryptMaxBytes == 72

KeyBytes(password) ==
    IF Len(password) <= BcryptMaxBytes THEN password
    ELSE SubSeq(password, 1, BcryptMaxBytes)

\* bcrypt.hash(password, 10): a salted one-way digest of the key bytes, never
\* the password itself.
bcryptHash(password) == <<"$2a$10$", KeyBytes(password)>>

\* bcrypt.compare(password, hash)
bcryptCompare(password, hash) == hash = bcryptHash(password)

\* A mutation of the projection: the whole row is sent.
PublicUser_WholeRow(u) == u

\* The public projection {id, name, email, role} of a users row.
PublicUser(u) == [id |-> u.id, name |-> u.name, email |-> u.email, role |-> u.role]

\* A token: the claims {id, email, name, role}, iat and exp in seconds, and
\* whether the signature verifies under JWT_SECRET; ms records Date.now() at
\* the moment of signing.
NoToken == [kind |-> "none", claims |-> NoUser, iat |-> 0, exp |-> 0, sig |-> "none",
            ms |-> 0]

NoRow == [id |-> 0, name |-> "", email |-> NoEmail, password_hash |-> <<>>, role |-> "",
          created_at |-> 0]

\* One piece of authHeader.split(' '): a word, or a token.
Word(s) == [word |-> s, tok |-> NoToken]

TokenPart(t) == [word |-> "", tok |-> t]

EmptyPart == Word("")

\* req.body and req.query; message is the sequence of the characters of the
\* chat message, location the query parameter of GET /api/weather ("" when
\* it is empty or missing), syntaxError whether the JSON text of the body
\* fails to parse.
NoBody == [name |-> "", email |-> NoEmail, password |-> "",
           crop |-> "", region |-> "", message |-> <<>>,
           location |-> "", syntaxError |-> FALSE]

NoHeader == [present |-> FALSE, parts |-> <<>>]

\* The prediction object of POST /api/predict; the yield is in tenths.
NoPrediction == [id |-> 0, crop |-> "", region |-> "", yieldEstimate |-> 0,
                 confidence |-> 0]

\* The entry GET /api/weather sends: the region's name and its current values.
NoWeather == [name |-> "", temperature |-> 0, humidity |-> 0, wind_speed |-> 0,
              precip |-> 0]

\* A response: the status, the fields of the JSON body the model follows, and
\* the stage of the chain that sent it. health is the body's own 'status'
\* field of GET /health, rows the list a history route sends.
NoResp == [status |-> 0, error |-> "", message |-> "", details |-> <<>>,
           user |-> NoUser, token |-> NoToken, prediction |-> NoPrediction,
           response |-> <<>>, category |-> "", by |-> "none",
           health |-> "", database |-> "", weather |-> NoWeather,
           availableEndpoints |-> <<>>, rows |-> <<>>]

\* res.status(s).json({error, message}) sent by stage `by` of the chain.
ErrorResp(s, e, m, by) ==
    [NoResp EXCEPT !.status = s, !.error = e, !.message = m, !.by = by]

-----------------------------------------------------------------------------
(* The store                                                               *)

Range(s) == {s[i] : i \in 1..Len(s)}

\* User.findOne({ where: { email } }): the row or NoRow (null).
UserFindOne(email) ==
    IF \E i \in 1..Len(users) : users[i].email = email
    THEN users[CHOOSE i \in 1..Len(users) : users[i].email = email]
    ELSE NoRow

\* A mutation of the unique index: an index that lets every insert through.
UniqueViolation_NoIndex(email) == FALSE

\* users.email is declared unique: an INSERT of an email that is already in the
\* table fails with SequelizeUniqueConstraintError.
UniqueViolation(email) == \E i \in 1..Len(users) : users[i].email = email

\* The row User.create({name, email, password_hash, role}) writes and returns:
\* the store gives it the next id and stamps created_at.
UserRow(name, email, hash, role) ==
    [id |-> nextUserId, name |-> name, email |-> email, password_hash |-> hash,
     role |-> role, created_at |-> now]

\* User.create(...) when the INSERT succeeds.
UserInsert(name, email, hash, role) ==
    /\ users' = Append(users, UserRow(name, email, hash, role))
    /\ nextUserId' = nextUserId + 1

DefaultNotifications ==
    << [id |-> 1, message |-> "Heavy rainfall expected next week - consider drainage",
        type |-> "weather", priority |-> "high"],
       [id |-> 2, message |-> "Fall armyworm alert in your region",
        type |-> "pest", priority |-> "critical"],
       [id |-> 3, message |-> "Optimal harvest time approaching",
        type |-> "harvest", priority |-> "medium"] >>

\* The rows createDefaultUsers leaves in an empty database.
SeededUsers ==
    << [id |-> 1, name |-> "Admin User", email |-> AdminEmail,
        password_hash |-> bcryptHash("admin123"), role |-> "admin",
        created_at |-> 0],
       [id |-> 2, name |-> "John Farmer", email |-> FarmerEmail,
        password_hash |-> bcryptHash("password123"), role |-> "farmer",
        created_at |-> 0] >>

-----------------------------------------------------------------------------
(* Startup: testDatabaseConnection -> createDefaultUsers, run without      *)
(* waiting while the server already listens.                               *)

SeedFrame ==
    UNCHANGED <<predictions, chat_history, reqs, nreq, now, nadv, issued,
                loggedOut, dbUp, hits, resetTime, NODE_ENV>>

\* Every await of the seeding rejects while the database is down; the catch of
\* createDefaultUsers logs the error and the seeding ends.
SeedFailed ==
    /\ seedPc' = "failed"
    /\ UNCHANGED <<users, nextUserId, notifications>>

\* const adminExists = await User.findOne(...)
SeedFindAdmin ==
    /\ seedPc = "findAdmin"
    /\ IF ~dbUp THEN SeedFailed
       ELSE /\ seedPc' = IF UserFindOne(AdminEmail) # NoRow THEN "findFarmer"
                         ELSE "createAdmin"
            /\ UNCHANGED <<users, nextUserId, notifications>>
    /\ SeedFrame

\* await User.create({... role: 'admin'}); a throw goes to the catch of
\* createDefaultUsers, which logs and ends the seeding.
SeedCreateAdmin ==
    /\ seedPc = "createAdmin"
    /\ IF ~dbUp \/ UniqueViolation(AdminEmail) THEN SeedFailed
       ELSE /\ UserInsert("Admin User", AdminEmail, bcryptHash("admin123"), "admin")
            /\ seedPc' = "findFarmer"
            /\ UNCHANGED notifications
    /\ SeedFrame

\* const farmerExists = await User.findOne(...)
SeedFindFarmer ==
    /\ seedPc = "findFarmer"
    /\ IF ~dbUp THEN SeedFailed
       ELSE /\ seedPc' = IF UserFindOne(FarmerEmail) # NoRow THEN "countNotifications"
                         ELSE "createFarmer"
            /\ UNCHANGED <<users, nextUserId, notifications>>
    /\ SeedFrame

SeedCreateFarmer ==
    /\ seedPc = "createFarmer"
    /\ IF ~dbUp \/ UniqueViolation(FarmerEmail) THEN SeedFailed
       ELSE /\ UserInsert("John Farmer", FarmerEmail, bcryptHash("password123"), "farmer")
            /\ seedPc' = "countNotifications"
            /\ UNCHANGED notifications
    /\ SeedFrame

\* const notificationCount = await Notification.count()
SeedCountNotifications ==
    /\ seedPc = "countNotifications"
    /\ IF ~dbUp THEN SeedFailed
       ELSE /\ seedPc' = IF Len(notifications) = 0 THEN "bulkCreate" ELSE "done"
            /\ UNCHANGED <<users, nextUserId, notifications>>
    /\ SeedFrame

\* await Notification.bulkCreate([...])
SeedBulkCreate ==
    /\ seedPc = "bulkCreate"
    /\ IF ~dbUp THEN SeedFailed
       ELSE /\ notifications' = notifications \o DefaultNotifications
            /\ seedPc' = "done"
            /\ UNCHANGED <<users, nextUserId>>
    /\ SeedFrame

Seed ==
    \/ SeedFindAdmin
    \/ SeedCreateAdmin
    \/ SeedFindFarmer
    \/ SeedCreateFarmer
    \/ SeedCountNotifications
    \/ SeedBulkCreate

-----------------------------------------------------------------------------
\* The database outlives the process: it is empty on the first start and holds
\* the seeded rows on a later one.
InitIn(env) ==
    /\ \/ users = <<>> /\ nextUserId = 1 /\ notifications = <<>>
       \/ users = SeededUsers /\ nextUserId = 3 /\ notifications = DefaultNotifications
    /\ predictions = <<>>
    /\ chat_history = <<>>
    /\ seedPc = "findAdmin"
    /\ reqs = {}
    /\ nreq = 0
    /\ now = 0
    /\ nadv = 0
    /\ issued = {}
    /\ loggedOut = {}
    /\ dbUp = TRUE
    /\ hits = [authLimiter |-> 0, generalLimiter |-> 0]
    /\ resetTime = [authLimiter |-> 0, generalLimiter |-> 0]
    /\ NODE_ENV = env

\* The process is started without NODE_ENV in its environment.
Init == InitIn("development")

\* The values NODE_ENV is started with.
Environments == {"development", "production"}

\* The process is started in either environment.
InitEnv == \E env \in Environments : InitIn(env)

-----------------------------------------------------------------------------
(* The Token Service: jwt.sign and jwt.verify of jsonwebtoken              *)

\* The number of seconds of { expiresIn: '24h' }.
ExpiresIn == 24 * 60 * 60

\* Math.floor(Date.now() / 1000): the clock in whole seconds.
ClockTimestamp(ms) == ms \div 1000

\* A mutation of the login handler: tokens that live one hour.
jwtSign_OneHour(u, ms) ==
    [kind |-> "jwt", claims |-> PublicUser(u), iat |-> ClockTimestamp(ms),
     exp |-> ClockTimestamp(ms) + 60 * 60, sig |-> "good", ms |-> ms]

\* A mutation of the login handler: every token carries the role 'farmer'.
jwtSign_AsFarmer(u, ms) ==
    [kind |-> "jwt", claims |-> [PublicUser(u) EXCEPT !.role = "farmer"],
     iat |-> ClockTimestamp(ms), exp |-> ClockTimestamp(ms) + ExpiresIn,
     sig |-> "good", ms |-> ms]

\* jwt.sign({id, email, name, role}, JWT_SECRET, { expiresIn: '24h' }) at
\* Date.now() = ms: iat is the clock in seconds, exp = iat + 86400.
jwtSign(u, ms) ==
    [kind |-> "jwt", claims |-> PublicUser(u), iat |-> ClockTimestamp(ms),
     exp |-> ClockTimestamp(ms) + ExpiresIn, sig |-> "good", ms |-> ms]

\* jwt.verify(token, JWT_SECRET) at Date.now() = ms: a string that is no JWT or
\* whose signature does not verify is a JsonWebTokenError; then a clock at or
\* past exp is a TokenExpiredError.
jwtVerify(part, ms) ==
    IF part.tok.kind # "jwt" \/ part.tok.sig # "good" THEN "JsonWebTokenError"
    ELSE IF ClockTimestamp(ms) >= part.tok.exp THEN "TokenExpiredError"
    ELSE "ok"

\* The payload jwt.verify hands to its callback.
Decoded(part) == [part.tok EXCEPT !.kind = "payload", !.sig = "none"]

\* What a client without the secret can make of a token it holds: the payload
\* under a signature that does not verify.
Forged(t) == {[t EXCEPT !.sig = "bad"]}


-----------------------------------------------------------------------------
(* Requests and the middleware chain                                       *)

Ids == {r.id : r \in reqs}

InFlight == {r.id : r \in {q \in reqs : q.pc # "done"}}

\* A mutation of the route declarations: the field rules of /api/predict and
\* /api/chat stand before the gate.
Chain_ValidateFirst(route) ==
    CASE route \in {"register", "login"} -> <<"validate", "handler">>
      [] route \in {"predict", "chat"} -> <<"validate", "authenticateToken", "handler">>
      [] OTHER -> <<"authenticateToken", "handler">>

\* A mutation of the route declarations: the gate stands before the 404
\* handler.
Chain_GatedCatchAll(route) ==
    CASE route \in {"register", "login", "weather"} -> <<"validate", "handler">>
      [] route \in {"predict", "chat"} -> <<"authenticateToken", "validate", "handler">>
      [] route = "health" -> <<"handler">>
      [] route \in {"unmatched", "preflight"} -> <<"authenticateToken", "notFound">>
      [] OTHER -> <<"authenticateToken", "handler">>

\* The array of middleware each route is declared with, in order; the field
\* rules (body(...), query(...)) and handleValidationErrors are one stage.
\* "unmatched" is a method and path no route declares, "preflight" a request
\* with the method OPTIONS: app.use('*', ...) is all that takes them.
Chain(route) ==
    CASE route \in {"register", "login", "weather"} -> <<"validate", "handler">>
      [] route \in {"predict", "chat"} -> <<"authenticateToken", "validate", "handler">>
      [] route = "health" -> <<"handler">>
      [] route \in {"unmatched", "preflight"} -> <<"notFound">>
      [] OTHER -> <<"authenticateToken", "handler">>

\* The first program point of each route's handler.
HandlerEntry(route) ==
    CASE route = "register" -> "registerFindOne"
      [] route = "login" -> "loginFindOne"
      [] route = "predict" -> "predictCreate"
      [] route = "chat" -> "chatSaveUser"
      [] route = "profile" -> "findByPk"
      [] route = "health" -> "healthAuthenticate"
      [] route = "weather" -> "weatherHandler"
      [] route \in {"notifications", "my-predictions", "chat-history"} -> "findAll"
      [] OTHER -> "handler"

ToPc(route, stage) == IF stage = "handler" THEN HandlerEntry(route) ELSE stage

FirstPc(route) == ToPc(route, Chain(route)[1])

\* next(): the stage that follows `stage` in the route's chain.
NextPc(route, stage) ==
    LET c == Chain(route)
        i == CHOOSE k \in 1..Len(c) : c[k] = stage
    IN ToPc(route, c[i + 1])

\* The request object at its arrival: route, parsed body, Authorization header.
\* at, conc and existed record, for the claims, the time of arrival, the
\* requests in flight and whether the normalized email was in the table then.
NewReq(route, body, header) ==
    [id |-> nreq + 1, route |-> route, body |-> body, header |-> header,
     pc |-> FirstPc(route), user |-> NoToken, row |-> NoRow, resp |-> NoResp,
     sent |-> 0,
     at |-> now, conc |-> InFlight,
     existed |-> UserFindOne(normalizeEmail(body.email)) # NoRow]

\* res.status(..).json(..) without next(): the chain ends. sent counts the
\* responses written for the request.
Send(q, resp) == [q EXCEPT !.pc = "done", !.resp = resp, !.sent = q.sent + 1]

\* The field rules of each route: the fields whose rule is violated.
ValidationErrors(route, body) ==
    CASE route = "register" ->
            {f \in {"name"} : Len(body.name) < 2}
            \cup {f \in {"email"} : ~isEmail(body.email)}
            \cup {f \in {"password"} : Len(body.password) < 6}
      [] route = "login" ->
            {f \in {"email"} : ~isEmail(body.email)}
            \cup {f \in {"password"} : Len(body.password) < 6}
      [] route = "predict" ->
            {f \in {"crop"} : body.crop = ""}
            \cup {f \in {"region"} : body.region = ""}
      [] route = "chat" ->
            {f \in {"message"} : Len(body.message) < 1 \/ Len(body.message) > 500}
      [] route = "weather" ->
            {f \in {"location"} : body.location = ""}
      [] OTHER -> {}

\* The sanitizers of the field rules: normalizeEmail() rewrites req.body.email.
Sanitize(route, body) ==
    IF route \in {"register", "login"}
    THEN [body EXCEPT !.email = normalizeEmail(body.email)]
    ELSE body

\* The field rules of each route in the order they are declared, each with
\* the message of its withMessage(...).
FieldRules(route) ==
    CASE route = "register" ->
            << [path |-> "name", msg |-> "Name must be at least 2 characters"],
               [path |-> "email", msg |-> "Valid email required"],
               [path |-> "password", msg |-> "Password must be at least 6 characters"] >>
      [] route = "login" ->
            << [path |-> "email", msg |-> "Valid email required"],
               [path |-> "password", msg |-> "Password must be at least 6 characters"] >>
      [] route = "predict" ->
            << [path |-> "crop", msg |-> "Crop selection required"],
               [path |-> "region", msg |-> "Region selection required"] >>
      [] route = "chat" ->
            << [path |-> "message", msg |-> "Message must be 1-500 characters"] >>
      [] route = "weather" ->
            << [path |-> "location", msg |-> "Location parameter required"] >>
      [] OTHER -> << >>

\* A mutation of validationResult: the result stops at the first error.
ErrorsArray_FirstOnly(route, body) ==
    LET Failed(rule) == rule.path \in ValidationErrors(route, body)
        all == SelectSeq(FieldRules(route), Failed)
    IN IF all = << >> THEN << >> ELSE << all[1] >>

\* validationResult(req).array(): every chain runs to its end, and the array
\* has one entry for every rule that failed, in the order of the rules.
ErrorsArray(route, body) ==
    LET Failed(rule) == rule.path \in ValidationErrors(route, body)
    IN SelectSeq(FieldRules(route), Failed)

\* The status and error of the response of handleValidationErrors; its details
\* are the errors array.
ValidationFailed == ErrorResp(400, "Validation failed", "", "handleValidationErrors")

\* A mutation of handleValidationErrors: the return before res.status(400) is
\* missing, so next() is called after the response was sent.
handleValidationErrors_FallsThrough(q) ==
    IF ErrorsArray(q.route, q.body) # << >>
    THEN [q EXCEPT !.pc = NextPc(q.route, "validate"),
                   !.resp = [ValidationFailed EXCEPT
                                !.details = ErrorsArray(q.route, q.body)],
                   !.sent = q.sent + 1]
    ELSE [q EXCEPT !.pc = NextPc(q.route, "validate"),
                   !.body = Sanitize(q.route, q.body)]

\* The field rules followed by handleValidationErrors.
handleValidationErrors(q) ==
    IF ErrorsArray(q.route, q.body) # << >>
    THEN Send(q, [ValidationFailed EXCEPT !.details = ErrorsArray(q.route, q.body)])
    ELSE [q EXCEPT !.pc = NextPc(q.route, "validate"),
                   !.body = Sanitize(q.route, q.body)]

-----------------------------------------------------------------------------
(* The Auth Gate                                                           *)

AccessTokenRequired ==
    ErrorResp(401, "Access token required",
              "Please provide Authorization header with Bearer token",
              "authenticateToken")

InvalidTokenFormat ==
    ErrorResp(401, "Invalid token format",
              "Use format: Authorization: Bearer <token>", "authenticateToken")

TokenExpired ==
    ErrorResp(401, "Token expired", "Please login again", "authenticateToken")

InvalidToken ==
    ErrorResp(403, "Invalid token", "Token verification failed", "authenticateToken")

\* A mutation of the gate: no test of the header before it is split.
HeaderMissing_Never(h) == FALSE

\* !authHeader: the header is undefined or the empty string.
HeaderMissing(h) == ~h.present \/ h.parts = <<EmptyPart>>

\* authHeader.split(' ')[1]; EmptyPart stands for undefined and for ''.
HeaderToken(h) == IF Len(h.parts) >= 2 THEN h.parts[2] ELSE EmptyPart

\* A mutation of the gate: every failed verification is answered 403.
VerifyFailure_Always403(err) == InvalidToken

\* The response of the gate to the err of jwt.verify.
VerifyFailure(err) == IF err = "TokenExpiredError" THEN TokenExpired ELSE InvalidToken

\* A mutation of the gate: next() is called whatever jwt.verify says.
authenticateToken_Lenient(q, ms) ==
    LET token == HeaderToken(q.header)
    IN IF HeaderMissing(q.header) THEN Send(q, AccessTokenRequired)
       ELSE IF token = EmptyPart THEN Send(q, InvalidTokenFormat)
       ELSE [q EXCEPT !.user = IF jwtVerify(token, ms) = "ok" THEN Decoded(token)
                                ELSE NoToken,
                      !.pc = NextPc(q.route, "authenticateToken")]

\* A mutation of the gate: a token a logout was answered for is refused.
authenticateToken_Revoking(q, ms) ==
    LET token == HeaderToken(q.header)
        err == jwtVerify(token, ms)
    IN IF HeaderMissing(q.header) THEN Send(q, AccessTokenRequired)
       ELSE IF token = EmptyPart THEN Send(q, InvalidTokenFormat)
       ELSE IF err # "ok" THEN Send(q, VerifyFailure(err))
       ELSE IF token.tok \in loggedOut THEN Send(q, InvalidToken)
       ELSE [q EXCEPT !.user = Decoded(token),
                      !.pc = NextPc(q.route, "authenticateToken")]

\* authenticateToken at Date.now() = ms.
authenticateToken(q, ms) ==
    LET token == HeaderToken(q.header)
        err == jwtVerify(token, ms)
    IN IF HeaderMissing(q.header) THEN Send(q, AccessTokenRequired)
       ELSE IF token = EmptyPart THEN Send(q, InvalidTokenFormat)
       ELSE IF err # "ok" THEN Send(q, VerifyFailure(err))
       ELSE [q EXCEPT !.user = Decoded(token),
                      !.pc = NextPc(q.route, "authenticateToken")]

-----------------------------------------------------------------------------
(* A request arrives                                                       *)

Ok(by) == [NoResp EXCEPT !.status = 200, !.by = by]

\* The list the 404 handler sends.
AvailableEndpoints ==
    <<"GET /health", "POST /api/register", "POST /api/login", "POST /api/logout",
      "GET /api/weather?location=<location>", "POST /api/predict",
      "POST /api/chat", "GET /api/notifications", "GET /api/my-predictions",
      "GET /api/chat-history", "GET /api/yield-history",
      "GET /api/weather-history", "GET /api/profile">>

\* app.use('*', ...): the response to a request no route has taken.
EndpointNotFound ==
    [ErrorResp(404, "Endpoint not found", "", "notFound")
        EXCEPT !.availableEndpoints = AvailableEndpoints]

\* cors(): a request with the method OPTIONS is ended with 204 and an empty
\* body, before the limiters and the routes.
Preflight == [NoResp EXCEPT !.status = 204, !.by = "cors"]

\* The message of the SyntaxError express.json() passes to next(err).
JsonSyntaxError == "Unexpected end of JSON input"

\* The global error handler: 500, with the error's own message in
\* development and a fixed one otherwise.
ErrorHandler(message) ==
    ErrorResp(500, "Internal server error",
              IF NODE_ENV = "development" THEN message ELSE "Something went wrong",
              "errorHandler")

\* One middleware of the chain, when the request stands at one.
Stage(q, ms) ==
    CASE q.pc = "authenticateToken" -> authenticateToken(q, ms)
      [] q.pc = "validate" -> handleValidationErrors(q)
      [] q.pc = "notFound" -> Send(q, EndpointNotFound)
      [] OTHER -> q

\* The handlers without an await (logout, yield-history, weather-history)
\* answer 200 in the same turn.
SyncHandler(q) == IF q.pc = "handler" THEN Send(q, Ok("handler")) ELSE q

\* The synchronous part of a request: the middleware chain (at most two
\* stages before the handler) and the handler up to its first await.
Arrive(q, ms) == SyncHandler(Stage(Stage(q, ms), ms))

-----------------------------------------------------------------------------
(* Rate limiting: express-rate-limit with its memory store, one caller     *)
(* (the store is keyed by req.ip)                                          *)

WindowMs == 15 * 60 * 1000

AuthMax == 5

GeneralMax == 100

Max(limiter) == IF limiter = "authLimiter" THEN AuthMax ELSE GeneralMax

TooManyLoginAttempts ==
    ErrorResp(429, "Too many login attempts, please try again later", "", "authLimiter")

TooManyRequests ==
    ErrorResp(429, "Too many requests, please try again later", "", "generalLimiter")

\* The limiters app.use(...) puts before a path, in their order.
Limiters(route) ==
    CASE route = "login" -> <<"authLimiter", "generalLimiter">>
      [] route \in {"health", "preflight"} -> << >>
      [] OTHER -> <<"generalLimiter">>

\* store.increment at Date.now() = ms: a caller without an entry, or whose
\* window has ended, starts a new window with one hit.
Increment(h, rt, limiter, ms) ==
    IF h[limiter] = 0 \/ ms >= rt[limiter]
    THEN [hits |-> [h EXCEPT ![limiter] = 1],
          resetTime |-> [rt EXCEPT ![limiter] = ms + WindowMs]]
    ELSE [hits |-> [h EXCEPT ![limiter] = h[limiter] + 1], resetTime |-> rt]

\* A mutation of the limiters: no request is ever over the budget.
OverLimit_Never(h, limiter) == FALSE

\* totalHits > max: the request is answered 429 and next() is not called.
OverLimit(h, limiter) == h[limiter] > Max(limiter)

\* The limiters of the route run in order; the one that finds the budget used
\* up answers, and the limiters after it do not count the request.
RateLimit(route, ms) ==
    LET ls == Limiters(route)
        s1 == Increment(hits, resetTime, ls[1], ms)
        s2 == Increment(s1.hits, s1.resetTime, ls[2], ms)
    IN IF Len(ls) = 0
       THEN [hits |-> hits, resetTime |-> resetTime, by |-> "none"]
       ELSE IF OverLimit(s1.hits, ls[1])
       THEN [hits |-> s1.hits, resetTime |-> s1.resetTime, by |-> ls[1]]
       ELSE IF Len(ls) = 1
       THEN [hits |-> s1.hits, resetTime |-> s1.resetTime, by |-> "none"]
       ELSE IF OverLimit(s2.hits, ls[2])
       THEN [hits |-> s2.hits, resetTime |-> s2.resetTime, by |-> ls[2]]
       ELSE [hits |-> s2.hits, resetTime |-> s2.resetTime, by |-> "none"]

\* The request after cors, the limiters, the body parser and the synchronous
\* part of its route; a body that does not parse goes to the error handler, past
\* every route.
Dispatch(q, ms) ==
    LET by == RateLimit(q.route, ms).by
    IN IF q.route = "preflight" THEN Send(q, Preflight)
       ELSE IF by = "authLimiter" THEN Send(q, TooManyLoginAttempts)
       ELSE IF by = "generalLimiter" THEN Send(q, TooManyRequests)
       ELSE IF q.body.syntaxError THEN Send(q, ErrorHandler(JsonSyntaxError))
       ELSE Arrive(q, ms)

-----------------------------------------------------------------------------
\* Replace request r by r2.
Update(r, r2) == reqs' = (reqs \ {r}) \cup {r2}

Respond(r, resp) == Update(r, Send(r, resp))

StoreFrame == UNCHANGED <<users, nextUserId, notifications, predictions, chat_history>>

ClockFrame == UNCHANGED <<now, nadv>>

\* What only the arrival of a request, the clock or the environment changes.
EnvFrame == UNCHANGED <<loggedOut, dbUp, hits, resetTime, NODE_ENV>>

\* The tokens a logout has been answered 200 for.
LoggedOutBy(q) ==
    IF q.route = "logout" /\ q.pc = "done" /\ q.resp.status = 200
    THEN {HeaderToken(q.header).tok}
    ELSE {}

\* A request arrives while fewer than max have been received. Answered
\* requests are kept only to be looked at; they are dropped before the next
\* request is taken up, which changes nothing the program does.
ReceiveUpTo(max, route, body, header) ==
    /\ nreq < max
    /\ \A r \in reqs : r.pc # "done"
    /\ LET q == Dispatch(NewReq(route, body, header), now)
       IN /\ reqs' = reqs \cup {q}
          /\ loggedOut' = loggedOut \cup LoggedOutBy(q)
    /\ hits' = RateLimit(route, now).hits
    /\ resetTime' = RateLimit(route, now).resetTime
    /\ nreq' = nreq + 1
    /\ StoreFrame /\ ClockFrame
    /\ UNCHANGED <<seedPc, issued, dbUp, NODE_ENV>>

Receive(route, body, header) == ReceiveUpTo(MaxReqs, route, body, header)

\* The response has been written; the request object is dropped.
Release(r) ==
    /\ r.pc = "done"
    /\ reqs' = reqs \ {r}
    /\ StoreFrame /\ ClockFrame /\ EnvFrame
    /\ UNCHANGED <<seedPc, nreq, issued>>

-----------------------------------------------------------------------------
(* The clock                                                               *)

\* Amounts of time that pass between two steps, in milliseconds: half a
\* second, two minutes, 23h59m, and half a second less than 24h.
Deltas == {500, 2 * 60 * 1000, (23 * 60 + 59) * 60 * 1000, ExpiresIn * 1000 - 500}

\* The timer of the memory store: an entry whose window ended a whole window
\* ago has been dropped.
Expire(h, rt, ms) ==
    LET gone(l) == h[l] # 0 /\ ms >= rt[l] + WindowMs
    IN [hits |-> [l \in DOMAIN h |-> IF gone(l) THEN 0 ELSE h[l]],
        resetTime |-> [l \in DOMAIN rt |-> IF gone(l) THEN 0 ELSE rt[l]]]

Advance ==
    /\ nadv < MaxAdvances
    /\ \E d \in Deltas :
          /\ now' = now + d
          /\ hits' = Expire(hits, resetTime, now + d).hits
          /\ resetTime' = Expire(hits, resetTime, now + d).resetTime
    /\ nadv' = nadv + 1
    /\ StoreFrame
    /\ UNCHANGED <<seedPc, reqs, nreq, issued, loggedOut, dbUp, NODE_ENV>>

-----------------------------------------------------------------------------
(* POST /api/register                                                      *)

RegNames == {"A", "Ann"}

RegEmails == {Email("Admin", "agripredict.com"), Email("ann", "farm.org"),
              Email("ANN", "Farm.org"), Email("ann", "")}

RegPasswords == {"abc", "secret1"}

ReceiveRegister ==
    \E n \in RegNames, e \in RegEmails, p \in RegPasswords :
        Receive("register", [NoBody EXCEPT !.name = n, !.email = e, !.password = p],
                NoHeader)

UserExists ==
    ErrorResp(400, "User already exists",
              "An account with this email already exists", "handler")

RegistrationFailed ==
    ErrorResp(500, "Registration failed", "Internal server error", "handler")

\* A mutation of the handler: no lookup before the insert.
RegisterFindOne_NoLookup(r) ==
    /\ r.pc = "registerFindOne"
    /\ Update(r, [r EXCEPT !.pc = "registerCreate"])
    /\ StoreFrame /\ ClockFrame /\ EnvFrame
    /\ UNCHANGED <<seedPc, nreq, issued>>

\* const existingUser = await User.findOne({ where: { email } });
\* if (existingUser) return res.status(400)...; a rejected await goes to the
\* catch, which answers 500.
RegisterFindOne(r) ==
    /\ r.pc = "registerFindOne"
    /\ IF ~dbUp THEN Respond(r, RegistrationFailed)
       ELSE IF UserFindOne(r.body.email) # NoRow
       THEN Respond(r, UserExists)
       ELSE Update(r, [r EXCEPT !.pc = "registerCreate"])
    /\ StoreFrame /\ ClockFrame /\ EnvFrame
    /\ UNCHANGED <<seedPc, nreq, issued>>

\* const password_hash = await bcrypt.hash(password, 10);
\* const user = await User.create({...}); res.status(201)...; a throw of
\* User.create goes to the catch, which answers 500.
RegisterCreate(r) ==
    /\ r.pc = "registerCreate"
    /\ IF ~dbUp \/ UniqueViolation(r.body.email)
       THEN /\ Respond(r, RegistrationFailed)
            /\ UNCHANGED <<users, nextUserId>>
       ELSE /\ UserInsert(r.body.name, r.body.email, bcryptHash(r.body.password), "farmer")
            /\ Respond(r, [NoResp EXCEPT !.status = 201,
                              !.message = "User registered successfully",
                              !.user = PublicUser(UserRow(r.body.name, r.body.email,
                                              bcryptHash(r.body.password), "farmer")),
                              !.by = "handler"])
    /\ ClockFrame /\ EnvFrame
    /\ UNCHANGED <<notifications, predictions, chat_history, seedPc, nreq, issued>>

-----------------------------------------------------------------------------
(* POST /api/login                                                         *)

LoginEmails == {Email("Admin", "agripredict.com"), Email("farmer", "example.com"),
                Email("ann", "farm.org"), Email("ann", "")}

LoginPasswords == {"abc", "admin123", "password123"}

ReceiveLogin ==
    \E e \in LoginEmails, p \in LoginPasswords :
        Receive("login", [NoBody EXCEPT !.email = e, !.password = p], NoHeader)

\* The response of the branch "if (!user)".
UserNotFound ==
    ErrorResp(401, "Invalid credentials", "Email or password is incorrect", "handler")

\* A mutation of the handler: the wrong-password branch says what was wrong.
InvalidPassword_Telling ==
    ErrorResp(401, "Invalid password", "Password is incorrect", "handler")

\* The response of the branch "if (!isValidPassword)".
InvalidPassword ==
    ErrorResp(401, "Invalid credentials", "Email or password is incorrect", "handler")

LoginFailed == ErrorResp(500, "Login failed", "Internal server error", "handler")

\* const user = await User.findOne({ where: { email } }); if (!user) return
\* 401; a rejected await goes to the catch, which answers 500.
LoginFindOne(r) ==
    /\ r.pc = "loginFindOne"
    /\ LET user == UserFindOne(r.body.email)
       IN IF ~dbUp THEN Respond(r, LoginFailed)
          ELSE IF user = NoRow
          THEN Respond(r, UserNotFound)
          ELSE Update(r, [r EXCEPT !.pc = "loginCompare", !.row = user])
    /\ StoreFrame /\ ClockFrame /\ EnvFrame
    /\ UNCHANGED <<seedPc, nreq, issued>>

\* const isValidPassword = await bcrypt.compare(password, user.password_hash);
\* if (!isValidPassword) return 401; then jwt.sign and
\* res.json({success, token, user, expiresIn}).
LoginCompare(r) ==
    /\ r.pc = "loginCompare"
    /\ IF ~bcryptCompare(r.body.password, r.row.password_hash)
       THEN Respond(r, InvalidPassword) /\ UNCHANGED issued
       ELSE LET token == jwtSign(r.row, now)
            IN /\ Respond(r, [Ok("handler") EXCEPT !.token = token,
                                                   !.user = PublicUser(r.row)])
               /\ issued' = issued \cup {token}
    /\ StoreFrame /\ ClockFrame /\ EnvFrame
    /\ UNCHANGED <<seedPc, nreq>>

-----------------------------------------------------------------------------
(* The bearer-protected routes                                             *)

ProtectedRoutes ==
    {"logout", "predict", "chat", "notifications", "profile", "yield-history",
     "weather-history", "my-predictions", "chat-history"}

\* The strings a client may put where the token belongs: a token it was
\* issued, a forgery of one, or a string that is no JWT.
ClientTokens ==
    {TokenPart(t) : t \in issued}
    \cup {TokenPart(f) : f \in UNION {Forged(t) : t \in issued}}
    \cup {Word("abc")}

\* The Authorization headers a client may send, as authHeader.split(' '):
\* none, "Bearer", "<t>", "Bearer <t>", "Basic <t>", "Bearer  <t>".
Headers ==
    {NoHeader, [present |-> TRUE, parts |-> <<Word("Bearer")>>]}
    \cup {[present |-> TRUE, parts |-> p] :
            p \in UNION {{<<t>>, <<Word("Bearer"), t>>, <<Word("Basic"), t>>,
                          <<Word("Bearer"), EmptyPart, t>>} : t \in ClientTokens}}

Bodies(route) ==
    CASE route = "predict" ->
            {[NoBody EXCEPT !.crop = c, !.region = g] :
                c \in {"", "Maize"}, g \in {"", "Central Kenya"}}
      [] route = "chat" ->
            {[NoBody EXCEPT !.message = m] : m \in {<<>>, <<"h", "e", "l", "l", "o">>}}
      [] OTHER -> {NoBody}

ReceiveProtected ==
    \E route \in ProtectedRoutes : \E b \in Bodies(route), h \in Headers :
        Receive(route, b, h)

\* The response of a catch block: 500 with a generic message.
Internal(e) == ErrorResp(500, e, "Internal server error", "handler")

FetchFailed(route) ==
    CASE route = "notifications" -> Internal("Failed to fetch notifications")
      [] route = "my-predictions" -> Internal("Failed to fetch predictions")
      [] OTHER -> Internal("Failed to fetch chat history")

Reverse(s) == [i \in 1..Len(s) |-> s[Len(s) + 1 - i]]

\* limit: n
Limit(s, n) == IF Len(s) <= n THEN s ELSE SubSeq(s, 1, n)

\* where: { user_id }
WhereUserId(table, user_id) ==
    LET Owned(row) == row.user_id = user_id
    IN SelectSeq(table, Owned)

\* A mutation of the query: the where clause is left out.
FindAll_Everyone(route, user_id) ==
    CASE route = "notifications" -> Limit(Reverse(notifications), 10)
      [] route = "my-predictions" -> Limit(Reverse(predictions), 20)
      [] OTHER -> Limit(chat_history, 50)

\* The findAll of each route: the ten newest notifications, the caller's
\* twenty newest predictions, the caller's fifty oldest chat messages. Rows
\* are inserted in the order of their created_at.
FindAll(route, user_id) ==
    CASE route = "notifications" -> Limit(Reverse(notifications), 10)
      [] route = "my-predictions" ->
            Limit(Reverse(WhereUserId(predictions, user_id)), 20)
      [] OTHER -> Limit(WhereUserId(chat_history, user_id), 50)

\* GET /api/notifications, /api/my-predictions, /api/chat-history: one
\* findAll, then 200 with the rows; a rejected await goes to the catch.
FindAllHandler(r) ==
    /\ r.pc = "findAll"
    /\ IF ~dbUp THEN Respond(r, FetchFailed(r.route))
       ELSE Respond(r, [Ok("handler") EXCEPT
                           !.rows = FindAll(r.route, r.user.claims.id)])
    /\ StoreFrame /\ ClockFrame /\ EnvFrame
    /\ UNCHANGED <<seedPc, nreq, issued>>

\* The user object of the profile response.
ProfileUser(u) ==
    [id |-> u.id, name |-> u.name, email |-> u.email, role |-> u.role,
     createdAt |-> u.created_at]

\* GET /api/profile: User.findByPk(req.user.id), 404 when there is no row.
ProfileHandler(r) ==
    /\ r.pc = "findByPk"
    /\ IF ~dbUp THEN Respond(r, Internal("Failed to fetch profile"))
       ELSE IF \E i \in 1..Len(users) : users[i].id = r.user.claims.id
       THEN LET u == users[CHOOSE i \in 1..Len(users) : users[i].id = r.user.claims.id]
            IN Respond(r, [Ok("handler") EXCEPT !.user = ProfileUser(u)])
       ELSE Respond(r, ErrorResp(404, "User not found", "", "handler"))
    /\ StoreFrame /\ ClockFrame /\ EnvFrame
    /\ UNCHANGED <<seedPc, nreq, issued>>

\* user_id references users.id: an INSERT with an id no user has fails.
ForeignKeyViolation(user_id) == ~\E i \in 1..Len(users) : users[i].id = user_id

-----------------------------------------------------------------------------
(* POST /api/predict                                                       *)

\* Not-a-Number, the value of undefined + number; it is no yield in tenths.
NaN == 0 - 100000

\* The names every object literal inherits from Object.prototype: a lookup
\* cropMultipliers[crop] with one of them finds the inherited member.
ObjectPrototypeKeys ==
    {"constructor", "toString", "toLocaleString", "valueOf", "hasOwnProperty",
     "isPrototypeOf", "propertyIsEnumerable", "__proto__"}

\* The own keys of cropMultipliers.
CropNames == {"Maize", "Beans", "Coffee", "Tea", "Wheat", "Rice", "Sorghum"}

\* cropMultipliers[crop] || cropMultipliers['Maize'], base and variance in
\* tenths of a tonne. An inherited member is truthy and has neither a base
\* nor a variance (undefined, NaN in arithmetic).
CropMultipliers(crop) ==
    CASE crop = "Maize" -> [base |-> 32, variance |-> 8]
      [] crop = "Beans" -> [base |-> 18, variance |-> 4]
      [] crop = "Coffee" -> [base |-> 21, variance |-> 6]
      [] crop = "Tea" -> [base |-> 28, variance |-> 5]
      [] crop = "Wheat" -> [base |-> 25, variance |-> 7]
      [] crop = "Rice" -> [base |-> 42, variance |-> 10]
      [] crop = "Sorghum" -> [base |-> 20, variance |-> 5]
      [] crop \in ObjectPrototypeKeys -> [base |-> NaN, variance |-> NaN]
      [] OTHER -> [base |-> 32, variance |-> 8]

\* Values of Math.random(), in thousandths.
Randoms == {0, 999}

\* parseFloat((base + (Math.random() - 0.5) * variance).toFixed(1)), in tenths.
YieldEstimate(crop, rnd) ==
    LET cropData == CropMultipliers(crop)
    IN IF cropData.base = NaN \/ cropData.variance = NaN THEN NaN
       ELSE (cropData.base * 1000 + (rnd - 500) * cropData.variance + 500) \div 1000

\* Math.floor(Math.random() * 15 + 85)
Confidence(rnd) == (rnd * 15 + 85 * 1000) \div 1000

PredictionFailed == Internal("Prediction failed")

\* A mutation of the handler: the prediction object is sent but not saved.
PredictHandler_NotSaved(r) ==
    /\ r.pc = "predictCreate"
    /\ \E r1 \in Randoms, r2 \in Randoms :
          Respond(r, [Ok("handler") EXCEPT !.prediction =
              [id |-> Len(predictions) + 1, crop |-> r.body.crop,
               region |-> r.body.region,
               yieldEstimate |-> YieldEstimate(r.body.crop, r1),
               confidence |-> Confidence(r2)]])
    /\ StoreFrame /\ ClockFrame /\ EnvFrame
    /\ UNCHANGED <<seedPc, nreq, issued>>

\* POST /api/predict: the values are drawn, Prediction.create({user_id:
\* req.user.id, crop, region, yield_estimate, confidence, ...}) is awaited and
\* the prediction object is sent; a throw goes to the catch (500). Whether the
\* store takes a yield_estimate of NaN depends on the database behind
\* ./models/index: the create either throws or stores it.
PredictHandler(r) ==
    /\ r.pc = "predictCreate"
    /\ IF ~dbUp \/ ForeignKeyViolation(r.user.claims.id)
       THEN /\ Respond(r, PredictionFailed)
            /\ UNCHANGED predictions
       ELSE \E r1 \in Randoms, r2 \in Randoms :
              LET yieldEstimate == YieldEstimate(r.body.crop, r1)
                  confidence == Confidence(r2)
                  id == Len(predictions) + 1
              IN \/ /\ yieldEstimate = NaN
                    /\ Respond(r, PredictionFailed)
                    /\ UNCHANGED predictions
                 \/ /\ predictions' = Append(predictions,
                           [id |-> id, user_id |-> r.user.claims.id,
                            crop |-> r.body.crop, region |-> r.body.region,
                            yield_estimate |-> yieldEstimate, confidence |-> confidence])
                    /\ Respond(r, [Ok("handler") EXCEPT !.prediction =
                           [id |-> id, crop |-> r.body.crop, region |-> r.body.region,
                            yieldEstimate |-> yieldEstimate, confidence |-> confidence]])
    /\ ClockFrame /\ EnvFrame
    /\ UNCHANGED <<users, nextUserId, notifications, chat_history, seedPc, nreq, issued>>

-----------------------------------------------------------------------------
(* POST /api/chat                                                          *)

UpperCase == <<"A", "B", "C", "D", "E", "F", "G", "H", "I", "J", "K", "L", "M", "N", "O", "P", "Q", "R", "S", "T", "U", "V", "W", "X", "Y", "Z">>

LowerCase == <<"a", "b", "c", "d", "e", "f", "g", "h", "i", "j", "k", "l", "m", "n", "o", "p", "q", "r", "s", "t", "u", "v", "w", "x", "y", "z">>

\* String.prototype.toLowerCase on a sequence of characters.
toLowerCase(m) ==
    [i \in 1..Len(m) |->
        IF \E k \in 1..Len(UpperCase) : UpperCase[k] = m[i]
        THEN LowerCase[CHOOSE k \in 1..Len(UpperCase) : UpperCase[k] = m[i]]
        ELSE m[i]]

\* String.prototype.includes: w occurs in m as a substring.
includes(m, w) ==
    \E i \in 1..(Len(m) - Len(w) + 1) : SubSeq(m, i, i + Len(w) - 1) = w

Reply(response, category) == [response |-> response, category |-> category]

\* A mutation of the chain of rules: the crop rules stand before the greeting.
ChatReply_CropsFirst(lower, name) ==
    IF includes(lower, <<"m", "a", "i", "z", "e">>) \/ includes(lower, <<"c", "o", "r", "n">>)
    THEN Reply(<<"For maize cultivation: ensure 75cm spacing between rows and 25cm between plants. Apply DAP fertilizer at planting (50kg/acre) and top-dress with CAN after 6 weeks. Watch for fall armyworm during early growth stages.">>, "crops")
    ELSE IF includes(lower, <<"h", "e", "l", "l", "o">>) \/ includes(lower, <<"h", "i">>) \/ includes(lower, <<"h", "e", "y">>)
    THEN Reply(<<"Hello ", name, "! I'm AgriBot, your AI farming assistant. How can I help you today?">>, "greeting")
    ELSE Reply(<<"I'm here to help with your farming questions. Could you be more specific about what you'd like to know?">>, "general")

\* The if / else-if chain over the lower-cased message.
ChatReply(lower, name) ==
    IF includes(lower, <<"h", "e", "l", "l", "o">>) \/ includes(lower, <<"h", "i">>) \/ includes(lower, <<"h", "e", "y">>)
    THEN Reply(<<"Hello ", name, "! I'm AgriBot, your AI farming assistant. How can I help you today?">>, "greeting")
    ELSE IF includes(lower, <<"w", "e", "a", "t", "h", "e", "r">>) \/ includes(lower, <<"r", "a", "i", "n">>) \/ includes(lower, <<"t", "e", "m", "p", "e", "r", "a", "t", "u", "r", "e">>)
    THEN Reply(<<"Based on current weather patterns, conditions look favorable for the next week. I recommend monitoring soil moisture levels and checking for any pest activity after rainfall.">>, "weather")
    ELSE IF includes(lower, <<"m", "a", "i", "z", "e">>) \/ includes(lower, <<"c", "o", "r", "n">>)
    THEN Reply(<<"For maize cultivation: ensure 75cm spacing between rows and 25cm between plants. Apply DAP fertilizer at planting (50kg/acre) and top-dress with CAN after 6 weeks. Watch for fall armyworm during early growth stages.">>, "crops")
    ELSE IF includes(lower, <<"b", "e", "a", "n", "s">>)
    THEN Reply(<<"Beans require well-drained soil and moderate watering. Plant at 30cm x 10cm spacing. Avoid waterlogging which causes root rot. Apply rhizobia inoculant for better nitrogen fixation.">>, "crops")
    ELSE IF includes(lower, <<"c", "o", "f", "f", "e", "e">>)
    THEN Reply(<<"Coffee plants need partial shade and consistent moisture. Prune regularly to maintain 2-3 main stems. Watch for coffee berry disease and leaf rust. Harvest when berries are deep red.">>, "crops")
    ELSE IF includes(lower, <<"p", "e", "s", "t">>) \/ includes(lower, <<"i", "n", "s", "e", "c", "t">>) \/ includes(lower, <<"d", "i", "s", "e", "a", "s", "e">>)
    THEN Reply(<<"For effective pest management: 1) Regular field monitoring (2x weekly), 2) Use integrated pest management (IPM), 3) Encourage beneficial insects, 4) Apply targeted treatments only when necessary. What specific pest are you dealing with?">>, "pest")
    ELSE IF includes(lower, <<"f", "e", "r", "t", "i", "l", "i", "z", "e", "r">>) \/ includes(lower, <<"n", "u", "t", "r", "i", "e", "n", "t">>)
    THEN Reply(<<"Soil testing is key for proper fertilization. Generally: Apply organic matter annually, use DAP/NPK at planting, and top-dress with nitrogen during active growth. Avoid over-fertilization which can reduce quality.">>, "fertilizer")
    ELSE IF includes(lower, <<"h", "a", "r", "v", "e", "s", "t">>) \/ includes(lower, <<"w", "h", "e", "n", " ", "t", "o", " ", "h", "a", "r", "v", "e", "s", "t">>)
    THEN Reply(<<"Harvest timing depends on your crop and intended use. Look for visual cues like color change, moisture content, and field drying. Early morning harvesting often gives better quality. What crop are you planning to harvest?">>, "harvest")
    ELSE Reply(<<"I'm here to help with your farming questions. Could you be more specific about what you'd like to know?">>, "general")

ChatFailed == Internal("Chat failed")

\* A mutation of the store: the row is written without its owner.
ChatInsert_NoOwner(user_id, message, sender, category) ==
    chat_history' = Append(chat_history,
        [id |-> Len(chat_history) + 1, user_id |-> 0, message |-> message,
         sender |-> sender, category |-> category])

\* A mutation of the store: the row takes the place of the newest one.
ChatInsert_Overwrite(user_id, message, sender, category) ==
    LET row == [id |-> Len(chat_history) + 1, user_id |-> user_id,
                message |-> message, sender |-> sender, category |-> category]
    IN chat_history' = IF chat_history = <<>> THEN <<row>>
                       ELSE [chat_history EXCEPT ![Len(chat_history)] = row]

\* ChatHistory.create({user_id, message, sender, category})
ChatInsert(user_id, message, sender, category) ==
    chat_history' = Append(chat_history,
        [id |-> Len(chat_history) + 1, user_id |-> user_id, message |-> message,
         sender |-> sender, category |-> category])

\* POST /api/chat, up to the first await: the user's message is saved.
ChatSaveUser(r) ==
    /\ r.pc = "chatSaveUser"
    /\ IF ~dbUp \/ ForeignKeyViolation(r.user.claims.id)
       THEN Respond(r, ChatFailed) /\ UNCHANGED chat_history
       ELSE /\ ChatInsert(r.user.claims.id, r.body.message, "user", "general")
            /\ Update(r, [r EXCEPT !.pc = "chatSaveBot"])
    /\ ClockFrame /\ EnvFrame
    /\ UNCHANGED <<users, nextUserId, notifications, predictions, seedPc, nreq, issued>>

\* POST /api/chat, up to the second await and the response: the reply is
\* chosen and saved, then sent; a throw goes to the catch (500).
ChatSaveBot(r) ==
    /\ r.pc = "chatSaveBot"
    /\ LET reply == ChatReply(toLowerCase(r.body.message), r.user.claims.name)
       IN IF ~dbUp \/ ForeignKeyViolation(r.user.claims.id)
          THEN Respond(r, ChatFailed) /\ UNCHANGED chat_history
          ELSE /\ ChatInsert(r.user.claims.id, reply.response, "bot", reply.category)
               /\ Respond(r, [Ok("handler") EXCEPT !.response = reply.response,
                                                   !.category = reply.category])
    /\ ClockFrame /\ EnvFrame
    /\ UNCHANGED <<users, nextUserId, notifications, predictions, seedPc, nreq, issued>>

-----------------------------------------------------------------------------
(* The database goes down and comes back                                   *)

StoreOutage ==
    /\ dbUp' = ~dbUp
    /\ StoreFrame /\ ClockFrame
    /\ UNCHANGED <<seedPc, reqs, nreq, issued, loggedOut, hits, resetTime, NODE_ENV>>

-----------------------------------------------------------------------------
(* Registration while the server starts                                    *)

NextRegister ==
    \/ Seed
    \/ ReceiveRegister
    \/ \E r \in reqs : RegisterFindOne(r)
    \/ \E r \in reqs : RegisterCreate(r)
    \/ \E r \in reqs : Release(r)

SpecRegister == Init /\ [][NextRegister]_vars

-----------------------------------------------------------------------------
(* Login and the protected routes, while the clock runs                    *)

NextAuth ==
    \/ Advance
    \/ ReceiveLogin
    \/ ReceiveProtected
    \/ \E r \in reqs : LoginFindOne(r)
    \/ \E r \in reqs : LoginCompare(r)
    \/ \E r \in reqs : FindAllHandler(r)
    \/ \E r \in reqs : ProfileHandler(r)
    \/ \E r \in reqs : PredictHandler(r)
    \/ \E r \in reqs : ChatSaveUser(r)
    \/ \E r \in reqs : ChatSaveBot(r)
    \/ \E r \in reqs : Release(r)

SpecAuth == Init /\ [][NextAuth]_vars

-----------------------------------------------------------------------------
(* A client's session: register, login, then the protected routes with the *)
(* token login returned, while the clock runs and the database may go down *)

MaxSessionReqs == 3

\* The client sends a request when it has the answer to the one before.
SessionReceive(route, body, header) ==
    /\ reqs = {}
    /\ ReceiveUpTo(MaxSessionReqs, route, body, header)

SessionRegister ==
    SessionReceive("register",
                [NoBody EXCEPT !.name = "Ann", !.email = Email("ann", "farm.org"),
                               !.password = "secret1"],
                NoHeader)

\* The credentials of Ann and of the seeded farmer, and a wrong password.
SessionLogin ==
    \E c \in {<<Email("ann", "farm.org"), "secret1">>,
              <<Email("farmer", "example.com"), "password123">>,
              <<Email("farmer", "example.com"), "admin123">>} :
        SessionReceive("login", [NoBody EXCEPT !.email = c[1], !.password = c[2]],
                       NoHeader)

SessionRoutes == {"logout", "profile", "predict", "chat"}

\* No header, or 'Bearer <token>' with a token login issued.
SessionHeaders ==
    {NoHeader}
    \cup {[present |-> TRUE, parts |-> <<Word("Bearer"), TokenPart(t)>>] : t \in issued}

SessionProtected ==
    \E route \in SessionRoutes : \E b \in Bodies(route), h \in SessionHeaders :
        SessionReceive(route, b, h)

NextSession ==
    \/ Advance
    \/ StoreOutage
    \/ SessionRegister
    \/ SessionLogin
    \/ SessionProtected
    \/ \E r \in reqs : RegisterFindOne(r)
    \/ \E r \in reqs : RegisterCreate(r)
    \/ \E r \in reqs : LoginFindOne(r)
    \/ \E r \in reqs : LoginCompare(r)
    \/ \E r \in reqs : ProfileHandler(r)
    \/ \E r \in reqs : PredictHandler(r)
    \/ \E r \in reqs : ChatSaveUser(r)
    \/ \E r \in reqs : ChatSaveBot(r)
    \/ \E r \in reqs : Release(r)

SpecSession == Init /\ [][NextSession]_vars

-----------------------------------------------------------------------------
(* One caller sends request after request within one window                *)

MaxLimitReqs == 102

LimitReceive(route, body, header) ==
    /\ reqs = {}
    /\ ReceiveUpTo(MaxLimitReqs, route, body, header)

\* A login with the seeded farmer's credentials, and one that breaks a rule.
LimitLogin ==
    \E c \in {<<Email("farmer", "example.com"), "password123">>,
              <<Email("ann", ""), "abc">>} :
        LimitReceive("login", [NoBody EXCEPT !.email = c[1], !.password = c[2]],
                     NoHeader)

\* A logout without a header or with a token login issued.
LimitLogout ==
    \E h \in SessionHeaders : LimitReceive("logout", NoBody, h)

NextLimit ==
    \/ LimitLogin
    \/ LimitLogout
    \/ \E r \in reqs : LoginFindOne(r)
    \/ \E r \in reqs : LoginCompare(r)
    \/ \E r \in reqs : Release(r)

SpecLimit == Init /\ [][NextLimit]_vars

-----------------------------------------------------------------------------
(* The seeded users chat                                                   *)

MaxChatReqs == 3

ChatMessages ==
    {<<"h", "e", "l", "l", "o">>,
     <<"H", "e", "y", " ", "t", "h", "e", "r", "e">>,
     <<"M", "a", "i", "z", "e">>,
     <<"t", "h", "i", "s", " ", "M", "A", "I", "Z", "E">>,
     <<"r", "a", "i", "n", " ", "o", "n", " ", "m", "y", " ", "c", "o", "r", "n">>,
     <<"b", "e", "a", "n", "s">>,
     <<"c", "o", "f", "f", "e", "e", " ", "p", "e", "s", "t">>,
     <<"i", "n", "s", "e", "c", "t", "s">>,
     <<"n", "u", "t", "r", "i", "e", "n", "t", "s">>,
     <<"h", "a", "r", "v", "e", "s", "t", " ", "b", "e", "a", "n", "s">>,
     <<"t", "e", "m", "p", "e", "r", "a", "t", "u", "r", "e">>,
     <<"s", "o", "i", "l">>,
     <<"f", "e", "r", "t", "i", "l", "i", "z", "e", "r", " ", "f", "o", "r", " ", "m", "a", "i", "z", "e">>,
     <<"d", "i", "s", "e", "a", "s", "e">>}

ChatReceive(route, body, header) ==
    /\ reqs = {}
    /\ ReceiveUpTo(MaxChatReqs, route, body, header)

ChatLogin ==
    \E c \in {<<Email("farmer", "example.com"), "password123">>,
              <<Email("admin", "agripredict.com"), "admin123">>} :
        ChatReceive("login", [NoBody EXCEPT !.email = c[1], !.password = c[2]],
                    NoHeader)

ChatSend ==
    \E m \in ChatMessages, h \in SessionHeaders :
        ChatReceive("chat", [NoBody EXCEPT !.message = m], h)

NextChat ==
    \/ ChatLogin
    \/ ChatSend
    \/ \E r \in reqs : LoginFindOne(r)
    \/ \E r \in reqs : LoginCompare(r)
    \/ \E r \in reqs : ChatSaveUser(r)
    \/ \E r \in reqs : ChatSaveBot(r)
    \/ \E r \in reqs : Release(r)

SpecChat == Init /\ [][NextChat]_vars


-----------------------------------------------------------------------------
(* The seeded farmer asks for predictions                                  *)

MaxPredictReqs == 3

\* Crop names a client may send: the keys of the table, names that are not
\* in it, and none.
PredictCrops == CropNames \cup {"Cassava", "constructor", ""}

PredictReceive(route, body, header) ==
    /\ reqs = {}
    /\ ReceiveUpTo(MaxPredictReqs, route, body, header)

PredictLogin ==
    PredictReceive("login",
                   [NoBody EXCEPT !.email = Email("farmer", "example.com"),
                                  !.password = "password123"],
                   NoHeader)

PredictSend ==
    \E c \in PredictCrops, h \in SessionHeaders :
        PredictReceive("predict",
                       [NoBody EXCEPT !.crop = c, !.region = "Central Kenya"], h)

NextPredict ==
    \/ PredictLogin
    \/ PredictSend
    \/ \E r \in reqs : LoginFindOne(r)
    \/ \E r \in reqs : LoginCompare(r)
    \/ \E r \in reqs : PredictHandler(r)
    \/ \E r \in reqs : Release(r)

SpecPredict == Init /\ [][NextPredict]_vars

-----------------------------------------------------------------------------
(* GET /health                                                             *)

\* The message of the error a call to the unreachable database rejects with.
StoreError == "connect ECONNREFUSED"

HealthOk == [Ok("handler") EXCEPT !.health = "OK", !.database = "Connected"]

\* The catch of GET /health: 503, with error.message in the body.
HealthError ==
    [ErrorResp(503, StoreError, "", "handler")
        EXCEPT !.health = "ERROR", !.database = "Disconnected"]

\* A mutation of the handler: the answer is 200 whatever authenticate() did.
HealthHandler_AlwaysOk(r) ==
    /\ r.pc = "healthAuthenticate"
    /\ Respond(r, HealthOk)
    /\ StoreFrame /\ ClockFrame /\ EnvFrame
    /\ UNCHANGED <<seedPc, nreq, issued>>

\* GET /health: sequelize.authenticate() is awaited; 200 when it resolves,
\* the catch when it rejects.
HealthHandler(r) ==
    /\ r.pc = "healthAuthenticate"
    /\ IF dbUp THEN Respond(r, HealthOk) ELSE Respond(r, HealthError)
    /\ StoreFrame /\ ClockFrame /\ EnvFrame
    /\ UNCHANGED <<seedPc, nreq, issued>>

-----------------------------------------------------------------------------
(* GET /api/weather                                                        *)

\* The own keys of weatherData.
WeatherRegions ==
    {"Central Kenya", "Western Kenya", "Eastern Kenya", "Rift Valley",
     "Coast Province"}

\* The baseline and the width of the jitter of each field of each region.
WeatherBase(name) ==
    CASE name = "Central Kenya" ->
            [temperature |-> <<26, 4>>, humidity |-> <<68, 10>>,
             wind_speed |-> <<12, 6>>, precip |-> <<15, 10>>]
      [] name = "Western Kenya" ->
            [temperature |-> <<24, 4>>, humidity |-> <<80, 8>>,
             wind_speed |-> <<10, 4>>, precip |-> <<22, 8>>]
      [] name = "Eastern Kenya" ->
            [temperature |-> <<29, 4>>, humidity |-> <<60, 10>>,
             wind_speed |-> <<14, 6>>, precip |-> <<10, 8>>]
      [] name = "Rift Valley" ->
            [temperature |-> <<22, 4>>, humidity |-> <<70, 8>>,
             wind_speed |-> <<8, 4>>, precip |-> <<18, 6>>]
      [] OTHER ->
            [temperature |-> <<30, 4>>, humidity |-> <<75, 10>>,
             wind_speed |-> <<16, 6>>, precip |-> <<25, 10>>]

\* base + Math.floor(Math.random() * width - width / 2), rnd in thousandths.
Jitter(bw, rnd) == bw[1] + ((rnd * bw[2] - 500 * bw[2]) \div 1000)

WeatherFields == {"temperature", "humidity", "wind_speed", "precip"}

\* weatherData[name] with the values Math.random() gave its fields.
WeatherEntry(name, rnd) ==
    LET b == WeatherBase(name)
    IN [name |-> name,
        temperature |-> Jitter(b.temperature, rnd.temperature),
        humidity |-> Jitter(b.humidity, rnd.humidity),
        wind_speed |-> Jitter(b.wind_speed, rnd.wind_speed),
        precip |-> Jitter(b.precip, rnd.precip)]

\* weatherData[location] || weatherData['Central Kenya']. A member the
\* object literal inherits is truthy and is sent in place of an entry: it has
\* no location and no current values.
WeatherResult(location, rnd) ==
    IF location \in WeatherRegions THEN WeatherEntry(location, rnd)
    ELSE IF location \in ObjectPrototypeKeys THEN NoWeather
    ELSE WeatherEntry("Central Kenya", rnd)

\* GET /api/weather, after the field rule: the entry is sent. The handler
\* reads nothing a step of another request writes.
WeatherHandler(r) ==
    /\ r.pc = "weatherHandler"
    /\ \E rnd \in [WeatherFields -> Randoms] :
          Respond(r, [Ok("handler") EXCEPT
                         !.weather = WeatherResult(r.body.location, rnd)])
    /\ StoreFrame /\ ClockFrame /\ EnvFrame
    /\ UNCHANGED <<seedPc, nreq, issued>>

-----------------------------------------------------------------------------
(* Every kind of request, one at a time, in either environment, while the  *)
(* database may go down                                                    *)

MaxServiceReqs == 3

ServiceReceive(route, body, header) ==
    /\ reqs = {}
    /\ ReceiveUpTo(MaxServiceReqs, route, body, header)

ServiceRegister ==
    ServiceReceive("register",
                   [NoBody EXCEPT !.name = "Ann", !.email = Email("ann", "farm.org"),
                                  !.password = "secret1"],
                   NoHeader)

ServiceLogin ==
    ServiceReceive("login",
                   [NoBody EXCEPT !.email = Email("farmer", "example.com"),
                                  !.password = "password123"],
                   NoHeader)

ServiceRoutes ==
    {"notifications", "my-predictions", "chat-history", "profile", "predict", "chat"}

ServiceBodies(route) ==
    CASE route = "predict" -> {[NoBody EXCEPT !.crop = "Maize", !.region = "Central Kenya"]}
      [] route = "chat" -> {[NoBody EXCEPT !.message = <<"h", "e", "l", "l", "o">>]}
      [] OTHER -> {NoBody}

ServiceProtected ==
    \E route \in ServiceRoutes : \E b \in ServiceBodies(route), h \in SessionHeaders :
        ServiceReceive(route, b, h)

\* A monitor asks for /health at any time, also while the client's request
\* is being served.
ServiceHealth == ReceiveUpTo(MaxServiceReqs, "health", NoBody, NoHeader)

\* Locations a client may ask for: none, keys of the table, names that are
\* not in it.
WeatherLocations == {"", "Central Kenya", "Rift Valley", "Nairobi", "constructor"}

ServiceWeather ==
    \E l \in WeatherLocations :
        ServiceReceive("weather", [NoBody EXCEPT !.location = l], NoHeader)

\* No header, 'Bearer <token>' with a token login issued, or with a string
\* that is no token.
ServiceHeaders ==
    SessionHeaders \cup {[present |-> TRUE, parts |-> <<Word("Bearer"), Word("abc")>>]}

\* A method and path under /api/ that no route declares, or any path with the
\* method OPTIONS.
ServiceUnmatched ==
    \E route \in {"unmatched", "preflight"}, h \in ServiceHeaders :
        ServiceReceive(route, NoBody, h)

\* A POST whose JSON body does not parse.
ServiceMalformed ==
    \E route \in {"register", "chat", "unmatched"}, h \in ServiceHeaders :
        ServiceReceive(route, [NoBody EXCEPT !.syntaxError = TRUE], h)

NextService ==
    \/ StoreOutage
    \/ ServiceRegister
    \/ ServiceLogin
    \/ ServiceProtected
    \/ ServiceHealth
    \/ ServiceWeather
    \/ ServiceUnmatched
    \/ ServiceMalformed
    \/ \E r \in reqs : RegisterFindOne(r)
    \/ \E r \in reqs : RegisterCreate(r)
    \/ \E r \in reqs : LoginFindOne(r)
    \/ \E r \in reqs : LoginCompare(r)
    \/ \E r \in reqs : FindAllHandler(r)
    \/ \E r \in reqs : ProfileHandler(r)
    \/ \E r \in reqs : PredictHandler(r)
    \/ \E r \in reqs : ChatSaveUser(r)
    \/ \E r \in reqs : ChatSaveBot(r)
    \/ \E r \in reqs : HealthHandler(r)
    \/ \E r \in reqs : WeatherHandler(r)
    \/ \E r \in reqs : Release(r)

SpecService == InitEnv /\ [][NextService]_vars

-----------------------------------------------------------------------------
(* The two seeded users predict, chat and read their histories             *)

MaxHistoryReqs == 5

HistoryReceive(route, body, header) ==
    /\ reqs = {}
    /\ ReceiveUpTo(MaxHistoryReqs, route, body, header)

HistoryLogin ==
    \E c \in {<<Email("farmer", "example.com"), "password123">>,
              <<Email("admin", "agripredict.com"), "admin123">>} :
        HistoryReceive("login", [NoBody EXCEPT !.email = c[1], !.password = c[2]],
                       NoHeader)

HistoryRoutes == {"predict", "chat", "my-predictions", "chat-history"}

HistorySend ==
    \E route \in HistoryRoutes : \E b \in ServiceBodies(route), h \in SessionHeaders :
        HistoryReceive(route, b, h)

NextHistory ==
    \/ HistoryLogin
    \/ HistorySend
    \/ \E r \in reqs : LoginFindOne(r)
    \/ \E r \in reqs : LoginCompare(r)
    \/ \E r \in reqs : PredictHandler(r)
    \/ \E r \in reqs : ChatSaveUser(r)
    \/ \E r \in reqs : ChatSaveBot(r)
    \/ \E r \in reqs : FindAllHandler(r)
    \/ \E r \in reqs : Release(r)

SpecHistory == Init /\ [][NextHistory]_vars

-----------------------------------------------------------------------------
(* A user registers and then logs in                                       *)

MaxRoundTripReqs == 3

RoundTripReceive(route, body, header) ==
    /\ reqs = {}
    /\ ReceiveUpTo(MaxRoundTripReqs, route, body, header)

\* A passphrase of 73 characters, and one that differs from it in the last.
LongPassword == "correct horse battery staple correct horse battery staple correct horse 1"

OtherLongPassword == "correct horse battery staple correct horse battery staple correct horse 2"

\* The passwords a user registers with.
RoundTripPasswords == {"secret1", LongPassword}

RoundTripRegister ==
    \E e \in {Email("ann", "farm.org"), Email("ANN", "Farm.org")},
       p \in RoundTripPasswords :
        RoundTripReceive("register",
                         [NoBody EXCEPT !.name = "Ann", !.email = e, !.password = p],
                         NoHeader)

\* The password of the register, other passwords of six characters or more,
\* and one that is shorter.
RoundTripLogin ==
    \E e \in {Email("ann", "farm.org"), Email("ANN", "Farm.org")},
       p \in RoundTripPasswords \cup {"secret2", "abc", OtherLongPassword} :
        RoundTripReceive("login", [NoBody EXCEPT !.email = e, !.password = p],
                         NoHeader)

NextRoundTrip ==
    \/ RoundTripRegister
    \/ RoundTripLogin
    \/ \E r \in reqs : RegisterFindOne(r)
    \/ \E r \in reqs : RegisterCreate(r)
    \/ \E r \in reqs : LoginFindOne(r)
    \/ \E r \in reqs : LoginCompare(r)
    \/ \E r \in reqs : Release(r)

SpecRoundTrip == Init /\ [][NextRoundTrip]_vars

-----------------------------------------------------------------------------
(* Every path a request can take: limiters, cors, body parser, field rules, *)
(* gate, handlers with and without a database call, 404 and error handler  *)

MaxPathReqs == 7

PathReceive(route, body, header) ==
    /\ reqs = {}
    /\ ReceiveUpTo(MaxPathReqs, route, body, header)

\* The seeded farmer's credentials, and a body that breaks both rules.
PathLogin ==
    \E c \in {<<Email("farmer", "example.com"), "password123">>,
              <<Email("ann", ""), "abc">>} :
        PathReceive("login", [NoBody EXCEPT !.email = c[1], !.password = c[2]],
                    NoHeader)

\* A handler without an await and one with, behind the gate.
PathProtected ==
    \E route \in {"logout", "profile"}, h \in ServiceHeaders :
        PathReceive(route, NoBody, h)

PathWeather ==
    \E l \in {"", "Nairobi"} :
        PathReceive("weather", [NoBody EXCEPT !.location = l], NoHeader)

PathUnmatched ==
    \E route \in {"unmatched", "preflight"} : PathReceive(route, NoBody, NoHeader)

PathMalformed ==
    PathReceive("login", [NoBody EXCEPT !.syntaxError = TRUE], NoHeader)

\* The steps the event loop takes for the requests in flight.
PathHandlers ==
    \/ \E r \in reqs : LoginFindOne(r)
    \/ \E r \in reqs : LoginCompare(r)
    \/ \E r \in reqs : ProfileHandler(r)
    \/ \E r \in reqs : WeatherHandler(r)

NextPaths ==
    \/ StoreOutage
    \/ PathLogin
    \/ PathProtected
    \/ PathWeather
    \/ PathUnmatched
    \/ PathMalformed
    \/ PathHandlers
    \/ \E r \in reqs : Release(r)

SpecPaths == Init /\ [][NextPaths]_vars

\* A pending promise of the database or of bcrypt settles, and the event loop
\* runs the continuation of the handler that awaits it.
SpecPathsLive == SpecPaths /\ WF_vars(PathHandlers)
-----------------------------------------------------------------------------
(* Claims about registration                                               *)

\* Two register requests ran concurrently with the same normalized email, both
\* passed the field rules, the email was free when each arrived and is none
\* the seeding writes.
ConcurrentPair(r1, r2) ==
    /\ r1.route = "register" /\ r2.route = "register"
    /\ r1.id \in r2.conc
    /\ r1.pc = "done" /\ r2.pc = "done"
    /\ r1.resp.by = "handler" /\ r2.resp.by = "handler"
    /\ r1.body.email = r2.body.email
    /\ r1.body.email \notin {AdminEmail, FarmerEmail}
    /\ ~r1.existed /\ ~r2.existed

\* C1: of two concurrent register requests with the same normalized email,
\* exactly one is answered with the success response (201) and the other with
\* Conflict (400 'User already exists'), whatever the interleaving of their
\* lookups and inserts.
C1_ConcurrentRegisterOneConflict ==
    \A r1 \in reqs : \A r2 \in reqs :
        ConcurrentPair(r1, r2) =>
            \/ r1.resp.status = 201 /\ r2.resp = UserExists
            \/ r2.resp.status = 201 /\ r1.resp = UserExists

\* C2: in every reachable state no two rows of users have the same email.
C2_EmailUnique ==
    \A i \in 1..Len(users) : \A j \in 1..Len(users) :
        i # j => users[i].email # users[j].email

\* An insert of a taken email was attempted and the store refused it.
C2_Witness ==
    \E r \in reqs :
        /\ r.route = "register" /\ r.resp = RegistrationFailed
        /\ \E i \in 1..Len(users) : users[i].email = r.body.email

-----------------------------------------------------------------------------
(* Claims about login and the Auth Gate                                    *)

\* What the caller sees of a response: the status and the JSON body.
Visible(resp) ==
    [status |-> resp.status, error |-> resp.error, message |-> resp.message,
     user |-> resp.user, token |-> resp.token]

\* A login that passed the field rules and found no user with the email.
UnknownEmailLogin(r) ==
    /\ r.route = "login" /\ r.pc = "done" /\ r.resp.by = "handler"
    /\ r.row = NoRow

\* A login that found the user and whose password does not verify.
WrongPasswordLogin(r) ==
    /\ r.route = "login" /\ r.pc = "done" /\ r.resp.by = "handler"
    /\ r.row # NoRow
    /\ ~bcryptCompare(r.body.password, r.row.password_hash)

\* C4: a validated login with an unknown email and one with a known email and
\* a wrong password get the same status, 401, and the same body.
C4_LoginFailuresIndistinguishable ==
    \A r1 \in reqs : \A r2 \in reqs :
        (UnknownEmailLogin(r1) /\ WrongPasswordLogin(r2)) =>
            /\ r1.resp.status = 401
            /\ Visible(r1.resp) = Visible(r2.resp)

C4_Witness ==
    \E r1 \in reqs : \E r2 \in reqs : UnknownEmailLogin(r1) /\ WrongPasswordLogin(r2)

\* The header has exactly the shape 'Bearer <token>'.
BearerShape(h) ==
    /\ h.present
    /\ Len(h.parts) = 2
    /\ h.parts[1] = Word("Bearer")
    /\ h.parts[2] # EmptyPart

\* C5: a request to a protected route whose Authorization header is present
\* but not of the shape 'Bearer <token>' is answered 401 'Invalid token
\* format' and its handler does not run.
C5_MalformedHeaderRejected ==
    \A r \in reqs :
        (r.route \in ProtectedRoutes /\ r.header.present /\ ~BearerShape(r.header)) =>
            r.pc = "done" /\ r.resp = InvalidTokenFormat

\* C6: a request without Authorization header to any of the nine protected
\* routes is answered 401 'Access token required' and its handler does not run.
C6_MissingHeaderRejected ==
    \A r \in reqs :
        (r.route \in ProtectedRoutes /\ ~r.header.present) =>
            /\ r.pc = "done"
            /\ r.resp.status = 401
            /\ r.resp.error = "Access token required"
            /\ r.resp.by = "authenticateToken"

\* A predict request with no header and a body that violates the field rules
\* has been answered by the gate.
C6_Witness ==
    \E r \in reqs :
        /\ r.route = "predict" /\ ~r.header.present
        /\ ValidationErrors("predict", r.body) # {}
        /\ r.resp = AccessTokenRequired

\* A request that presents, as 'Bearer <token>', a token login issued.
PresentsIssued(r) ==
    /\ r.route \in ProtectedRoutes
    /\ BearerShape(r.header)
    /\ r.header.parts[2].tok \in issued

\* The gate let the request through with the identity of its token.
Accepted(r) ==
    /\ r.user = Decoded(HeaderToken(r.header))
    /\ r.resp.by # "authenticateToken"

Day == ExpiresIn * 1000

\* C7 as stated: a token issued at T (r.header.parts[2].tok.ms) is accepted at
\* every time before T+24h and rejected at every time after T+24h.
C7_AcceptedUntil24h ==
    \A r \in reqs :
        PresentsIssued(r) =>
            LET T == r.header.parts[2].tok.ms
            IN /\ (r.at < T + Day => Accepted(r))
               /\ (r.at > T + Day => r.resp = TokenExpired)

\* C7 as amended: a token issued at T is accepted at every time up to one
\* second before T+24h (so at T+23h59m) and rejected at every time from T+24h
\* on (so at T+24h01m).
C7_AcceptedUntilLastSecond ==
    \A r \in reqs :
        PresentsIssued(r) =>
            LET T == r.header.parts[2].tok.ms
            IN /\ (r.at + 1000 <= T + Day => Accepted(r))
               /\ (r.at >= T + Day => r.resp = TokenExpired)

\* A token is accepted 23h59m after it was issued.
C7_Witness ==
    \E r \in reqs :
        /\ PresentsIssued(r)
        /\ r.at = r.header.parts[2].tok.ms + (23 * 60 + 59) * 60 * 1000
        /\ Accepted(r)

\* C8: when the gate verifies a token, a well-signed token past its expiry
\* gets 401 'Token expired' / 'Please login again', a string that is no JWT or
\* whose signature fails gets 403, any other token is accepted; exactly one of
\* the three happens.
C8_VerifyOutcomes ==
    \A r \in reqs :
        (r.route \in ProtectedRoutes /\ r.header.present
            /\ HeaderToken(r.header) # EmptyPart) =>
            LET t == HeaderToken(r.header).tok
                bad == t.kind # "jwt" \/ t.sig # "good"
                expired == ~bad /\ r.at \div 1000 >= t.exp
                is401 == /\ r.resp.status = 401 /\ r.resp.error = "Token expired"
                         /\ r.resp.message = "Please login again"
                is403 == r.resp.status = 403 /\ r.resp.by = "authenticateToken"
            IN /\ expired <=> is401
               /\ bad <=> is403
               /\ (~bad /\ ~expired) <=> Accepted(r)
               /\ ~(is401 /\ is403) /\ ~(is401 /\ Accepted(r)) /\ ~(is403 /\ Accepted(r))

\* An issued token was presented after its expiry and refused as expired.
C8_Witness ==
    \E r \in reqs : PresentsIssued(r) /\ r.resp = TokenExpired

\* The program points inside the handlers of the protected routes.
ProtectedHandlerPcs ==
    {"findAll", "findByPk", "predictCreate", "chatSaveUser", "chatSaveBot"}

\* The handler of r is running or has answered.
InHandler(r) ==
    \/ r.pc \in ProtectedHandlerPcs
    \/ r.pc = "done" /\ r.resp.by = "handler"

\* C9: on a protected route the handler runs only after the gate verified the
\* token and attached an identity equal to the token's claims, and on the
\* routes with field rules only after every rule passed; no step of a
\* handler changes the attached identity.
C9_HandlerAfterGate ==
    /\ [](\A r \in reqs :
            (r.route \in ProtectedRoutes /\ InHandler(r)) =>
                /\ jwtVerify(HeaderToken(r.header), r.at) = "ok"
                /\ r.user.claims = HeaderToken(r.header).tok.claims
                /\ r.user.claims # NoUser
                /\ ValidationErrors(r.route, r.body) = {})
    /\ [][\A r \in reqs :
            (r.route \in ProtectedRoutes /\ r.pc # "done" /\ r.id \in Ids') =>
                (CHOOSE q \in reqs' : q.id = r.id).user = r.user]_vars

\* A predict handler has run and answered.
C9_Witness ==
    \E r \in reqs :
        /\ r.route = "predict" /\ r.pc = "done" /\ r.resp.by = "handler"
        /\ r.resp.status = 200

\* The response is the 400 of handleValidationErrors.
ValidationFailure(resp) ==
    /\ resp.status = 400 /\ resp.error = "Validation failed"
    /\ resp.by = "handleValidationErrors"

\* The body violates a field rule and the token is missing, malformed or does
\* not verify.
InvalidBodyAndToken(r) ==
    /\ r.route \in {"predict", "chat"}
    /\ ValidationErrors(r.route, r.body) # {}
    /\ \/ HeaderMissing(r.header)
       \/ HeaderToken(r.header) = EmptyPart
       \/ jwtVerify(HeaderToken(r.header), r.at) # "ok"

\* C10 as stated: on /api/predict and /api/chat a request with an invalid body
\* and a missing or invalid token is answered with the 400 validation failure.
C10_ValidatorBeforeGate ==
    \A r \in reqs : InvalidBodyAndToken(r) => ValidationFailure(r.resp)

\* C10 as amended: on /api/predict and /api/chat the gate runs before the
\* field rules are enforced: such a request is answered by the gate with 401
\* or 403, and the 400 validation failure is sent only to a request whose
\* token the gate accepted.
C10_GateBeforeValidator ==
    \A r \in reqs :
        /\ InvalidBodyAndToken(r) =>
              /\ r.pc = "done"
              /\ r.resp.by = "authenticateToken"
              /\ r.resp.status \in {401, 403}
        /\ (r.route \in {"predict", "chat"} /\ ValidationFailure(r.resp)) =>
              r.user = Decoded(HeaderToken(r.header))

\* A request with an invalid body and a token that does not verify was
\* answered 403 by the gate.
C10_Witness ==
    \E r \in reqs :
        /\ InvalidBodyAndToken(r)
        /\ ~HeaderMissing(r.header) /\ HeaderToken(r.header) # EmptyPart
        /\ r.resp = InvalidToken
-----------------------------------------------------------------------------
(* Claims about the field rules                                            *)

\* The fields the details of a response name.
DetailPaths(resp) == {resp.details[i].path : i \in 1..Len(resp.details)}

\* The response is the 400 of handleValidationErrors and its details have
\* exactly one entry for every rule the body violates.
ListsEveryViolation(r) ==
    /\ r.pc = "done"
    /\ ValidationFailure(r.resp)
    /\ DetailPaths(r.resp) = ValidationErrors(r.route, r.body)
    /\ Len(r.resp.details) = Cardinality(ValidationErrors(r.route, r.body))

\* C11 as stated: a request that violates one or more field rules of its
\* route is answered 400 with a details entry for every violated rule.
C11_EveryViolationIs400 ==
    \A r \in reqs :
        ValidationErrors(r.route, r.body) # {} => ListsEveryViolation(r)

\* The request was not stopped by a limiter and, on /api/predict and
\* /api/chat, carries a token the gate accepts at its arrival.
ReachesRules(r) ==
    /\ r.resp.by \notin {"authLimiter", "generalLimiter"}
    /\ r.route \in {"predict", "chat"} =>
          /\ ~HeaderMissing(r.header)
          /\ HeaderToken(r.header) # EmptyPart
          /\ jwtVerify(HeaderToken(r.header), r.at) = "ok"

\* C11 as amended: a request that reaches the field rules of its route and
\* violates one or more of them is answered 400 by handleValidationErrors, with
\* a details entry for every violated rule, and its handler does not run; a
\* request the gate refuses is answered 401 or 403 whatever its body.
C11_ViolationAfterGateIs400 ==
    \A r \in reqs :
        ValidationErrors(r.route, r.body) # {} =>
            IF ReachesRules(r) THEN ListsEveryViolation(r)
            ELSE r.pc = "done" /\ r.resp.status \in {401, 403, 429}

\* A login that violates both of its rules, and whose details name both.
C11_Witness ==
    \E r \in reqs :
        /\ r.route = "login"
        /\ ValidationErrors("login", r.body) = {"email", "password"}
        /\ ValidationFailure(r.resp)
        /\ Len(r.resp.details) = 2

-----------------------------------------------------------------------------
(* Claims about the session                                                *)

\* The request presents, after a logout was answered 200 for it, a token
\* login issued.
AfterLogout(r) ==
    /\ PresentsIssued(r)
    /\ r.header.parts[2].tok \in loggedOut
    /\ r.resp.by \notin {"authLimiter", "generalLimiter"}

\* C12: logout revokes nothing: a token presented after POST /api/logout
\* accepted it is still accepted by every protected route as long as the clock,
\* in seconds, is before the token's exp, and refused as expired from then on.
C12_LogoutRevokesNothing ==
    \A r \in reqs :
        AfterLogout(r) =>
            LET t == r.header.parts[2].tok
            IN /\ ClockTimestamp(r.at) < t.exp => Accepted(r)
               /\ ClockTimestamp(r.at) >= t.exp => r.resp = TokenExpired

\* After its logout a token fetched the profile of its user.
C12_Witness ==
    \E r \in reqs :
        /\ AfterLogout(r)
        /\ r.route = "profile" /\ r.pc = "done" /\ r.resp.status = 200
        /\ r.resp.user.id = r.header.parts[2].tok.claims.id

\* The four values {id, email, name, role} of a record.
Identity(x) == <<x.id, x.email, x.name, x.role>>

\* C13: a successful login returns a token whose claims id, email, name and
\* role are those of the stored user with the normalized email, and a user
\* object with the same four values.
C13_TokenCarriesStoredUser ==
    \A r \in reqs :
        (r.route = "login" /\ r.pc = "done" /\ r.resp.status = 200) =>
            LET u == UserFindOne(normalizeEmail(r.body.email))
            IN /\ u # NoRow
               /\ r.resp.token.kind = "jwt"
               /\ Identity(r.resp.token.claims) = Identity(u)
               /\ Identity(r.resp.user) = Identity(u)

\* The admin has logged in and holds a token with the role 'admin'.
C13_Witness ==
    \E r \in reqs :
        /\ r.route = "login" /\ r.pc = "done" /\ r.resp.status = 200
        /\ r.resp.token.claims.role = "admin"
        /\ r.resp.token.claims.email = AdminEmail

\* The response of r carries no password hash: neither its user object nor
\* the claims of its token have the field.
NoHashIn(resp) ==
    /\ "password_hash" \notin DOMAIN resp.user
    /\ "password_hash" \notin DOMAIN resp.token.claims

\* C14: a register answered 201 has added exactly one row to users, with the
\* role 'farmer' and a hash that verifies the submitted password, and its user
\* object has the fields id, name, email and role of that row and no other;
\* no response of register, login or profile carries a password hash.
C14_RegisterStoresHashOnly ==
    /\ [](\A r \in reqs :
            r.route \in {"register", "login", "profile"} => NoHashIn(r.resp))
    /\ [][\A r \in reqs :
            (r.route = "register" /\ r.pc # "done" /\ r.id \in Ids') =>
                LET r2 == CHOOSE q \in reqs' : q.id = r.id
                    row == users'[Len(users')]
                IN IF r2.resp.status = 201
                   THEN /\ users' = Append(users, row)
                        /\ row.role = "farmer"
                        /\ row.password_hash = bcryptHash(r.body.password)
                        /\ bcryptCompare(r.body.password, row.password_hash)
                        /\ DOMAIN r2.resp.user = {"id", "name", "email", "role"}
                        /\ Identity(r2.resp.user) = Identity(row)
                        /\ row.name = r.body.name /\ row.email = r.body.email
                   ELSE users' = users]_vars

\* Ann has registered and been answered 201 with her public projection.
C14_Witness ==
    \E r \in reqs :
        /\ r.route = "register" /\ r.pc = "done" /\ r.resp.status = 201
        /\ \E i \in 1..Len(users) :
              /\ users[i].email = r.body.email
              /\ users[i].id = r.resp.user.id
              /\ users[i].password_hash = bcryptHash("secret1")

-----------------------------------------------------------------------------
(* Claims about the rate limiters                                          *)

\* No middleware of its route and no handler has touched the request.
Untouched(r) ==
    /\ r.pc = "done"
    /\ r.user = NoToken /\ r.row = NoRow
    /\ r.resp.token = NoToken /\ r.resp.details = << >>

\* C15: within one window and for one caller, a login that arrives when 5
\* logins were counted, and any request that arrives when 100 requests were
\* counted, is answered 429 by the limiter before field rules, gate or handler
\* run, whatever its body and header. (hits counts the request itself.)
C15_OverBudgetRejected ==
    \A r \in reqs :
        /\ (r.route = "login" /\ hits.authLimiter > AuthMax) =>
              r.resp = TooManyLoginAttempts /\ Untouched(r)
        /\ (hits.generalLimiter > GeneralMax
                /\ ~(r.route = "login" /\ hits.authLimiter > AuthMax)) =>
              r.resp = TooManyRequests /\ Untouched(r)
        /\ r.resp.status = 429 => Untouched(r)

\* The login budget was used up earlier, and now the 101st counted request,
\* a logout with a token login issued, is refused by the general limiter.
C15_Witness ==
    \E r \in reqs :
        /\ r.route = "logout" /\ r.header.present
        /\ r.resp = TooManyRequests
        /\ hits.authLimiter > AuthMax

-----------------------------------------------------------------------------
(* Claims about the records of the store                                   *)

UserIds == {users[i].id : i \in 1..Len(users)}

\* C16: in every reachable state the user_id of every row of predictions and
\* of chat_history is the id of a row of users.
C16_RecordsReferenceUsers ==
    /\ \A i \in 1..Len(predictions) : predictions[i].user_id \in UserIds
    /\ \A i \in 1..Len(chat_history) : chat_history[i].user_id \in UserIds

\* A user has both a prediction and a chat turn in the store.
C16_Witness ==
    \E u \in UserIds :
        /\ \E i \in 1..Len(predictions) : predictions[i].user_id = u
        /\ \E i \in 1..Len(chat_history) :
              chat_history[i].user_id = u /\ chat_history[i].sender = "bot"

\* No chat turn is between its two inserts.
NoTurnRunning == \A r \in reqs : r.pc # "chatSaveBot"

\* C17: every chat turn leaves exactly two rows of its user in chat_history,
\* first the inbound message with sender 'user', then the reply with sender
\* 'bot'; no turn that has ended leaves only one of the two. (The client of
\* this specification sends one request at a time, so the rows of a turn are
\* adjacent.)
C17_TurnsArePairs ==
    NoTurnRunning =>
        /\ Len(chat_history) % 2 = 0
        /\ \A i \in 1..Len(chat_history) :
              i % 2 = 1 =>
                  /\ chat_history[i].sender = "user"
                  /\ chat_history[i + 1].sender = "bot"
                  /\ chat_history[i + 1].user_id = chat_history[i].user_id
                  /\ chat_history[i + 1].message =
                        ChatReply(toLowerCase(chat_history[i].message),
                                  users[CHOOSE k \in 1..Len(users) :
                                      users[k].id = chat_history[i].user_id].name).response

\* C18: a predict that is answered with the prediction object has added
\* exactly one row to predictions in that step, owned by the id of the caller's
\* token and with the crop, region, yield_estimate and confidence of the
\* response; a predict refused by the gate or by the field rules, or one that
\* fails, adds none.
C18_OnePredictionPerCall ==
    /\ [](\A r \in reqs :
            (r.route = "predict" /\ r.pc = "done" /\ r.resp.status # 200) =>
                r.resp.prediction = NoPrediction)
    /\ [][\A r \in reqs' :
            (r.route = "predict" /\ r \notin reqs) =>
                IF r.pc = "done" /\ r.resp.status = 200
                THEN LET row == predictions'[Len(predictions')]
                         p == r.resp.prediction
                     IN /\ Len(predictions') = Len(predictions) + 1
                        /\ predictions' = Append(predictions, row)
                        /\ row.user_id = HeaderToken(r.header).tok.claims.id
                        /\ row.id = p.id
                        /\ row.crop = p.crop /\ p.crop = r.body.crop
                        /\ row.region = p.region /\ p.region = r.body.region
                        /\ row.yield_estimate = p.yieldEstimate
                        /\ row.confidence = p.confidence
                ELSE predictions' = predictions]_vars

\* A predict for Maize was answered 200 and its row is in the store.
C18_Witness ==
    \E r \in reqs :
        /\ r.route = "predict" /\ r.pc = "done" /\ r.resp.status = 200
        /\ \E i \in 1..Len(predictions) :
              /\ predictions[i].id = r.resp.prediction.id
              /\ predictions[i].crop = "Maize"
              /\ predictions[i].user_id = r.user.claims.id

-----------------------------------------------------------------------------
(* Claims about the chat rules                                             *)

\* A chat turn that was answered 200.
Answered(r) == r.route = "chat" /\ r.pc = "done" /\ r.resp.status = 200

\* C19: a chat message that contains 'maize' in any letter case is answered
\* with the category 'crops' and the fixed maize response, whatever text
\* surrounds the word.
C19_MaizeAlwaysCrops ==
    \A r \in reqs :
        (Answered(r) /\ includes(toLowerCase(r.body.message), <<"m", "a", "i", "z", "e">>)) =>
            /\ r.resp.category = "crops"
            /\ r.resp.response = ChatReply(<<"m", "a", "i", "z", "e">>, r.user.claims.name).response

\* The rules in the order of the claim: greeting, weather, maize/corn, beans,
\* coffee, pest, fertilizer, harvest.
RuleOrder ==
    << [category |-> "greeting",
        keywords |-> <<<<"h", "e", "l", "l", "o">>, <<"h", "i">>, <<"h", "e", "y">>>>],
       [category |-> "weather",
        keywords |-> <<<<"w", "e", "a", "t", "h", "e", "r">>, <<"r", "a", "i", "n">>, <<"t", "e", "m", "p", "e", "r", "a", "t", "u", "r", "e">>>>],
       [category |-> "crops",
        keywords |-> <<<<"m", "a", "i", "z", "e">>, <<"c", "o", "r", "n">>>>],
       [category |-> "crops",
        keywords |-> <<<<"b", "e", "a", "n", "s">>>>],
       [category |-> "crops",
        keywords |-> <<<<"c", "o", "f", "f", "e", "e">>>>],
       [category |-> "pest",
        keywords |-> <<<<"p", "e", "s", "t">>, <<"i", "n", "s", "e", "c", "t">>, <<"d", "i", "s", "e", "a", "s", "e">>>>],
       [category |-> "fertilizer",
        keywords |-> <<<<"f", "e", "r", "t", "i", "l", "i", "z", "e", "r">>, <<"n", "u", "t", "r", "i", "e", "n", "t">>>>],
       [category |-> "harvest",
        keywords |-> <<<<"h", "a", "r", "v", "e", "s", "t">>, <<"w", "h", "e", "n", " ", "t", "o", " ", "h", "a", "r", "v", "e", "s", "t">>>>] >>

\* The rules one of whose keywords is a substring of the lower-cased message.
Matching(message) ==
    {k \in 1..Len(RuleOrder) :
        \E j \in 1..Len(RuleOrder[k].keywords) :
            includes(toLowerCase(message), RuleOrder[k].keywords[j])}

\* The least element of a non-empty set of numbers.
Least(S) == CHOOSE k \in S : \A j \in S : k <= j

\* C20: the reply of a chat turn has the category and the response of the
\* first rule, in the order greeting, weather, maize/corn, beans, coffee, pest,
\* fertilizer, harvest, one of whose keywords occurs in the lower-cased
\* message (the response that rule gives its own first keyword); when no
\* keyword occurs the category is 'general' and the reply the generic prompt.
C20_FirstMatchingRuleWins ==
    \A r \in reqs :
        Answered(r) =>
            LET m == Matching(r.body.message)
                name == r.user.claims.name
            IN IF m = {}
               THEN /\ r.resp.category = "general"
                    /\ r.resp.response = ChatReply(<<>>, name).response
                    /\ r.resp.response[1] = "I'm here to help with your farming questions. Could you be more specific about what you'd like to know?"
               ELSE /\ r.resp.category = RuleOrder[Least(m)].category
                    /\ r.resp.response =
                          ChatReply(RuleOrder[Least(m)].keywords[1], name).response
                    /\ \A k \in 1..Len(RuleOrder) :
                          Matching(RuleOrder[k].keywords[1]) = {k}

\* A message with a weather keyword and a crop keyword was answered by the
\* weather rule, which stands first.
C20_Witness ==
    \E r \in reqs :
        /\ Answered(r)
        /\ Matching(r.body.message) = {2, 3}
        /\ r.resp.category = "weather"


-----------------------------------------------------------------------------
(* Claims about the prediction values                                      *)

\* The band the documentation gives a crop: base - variance .. base + variance
\* of its table entry, the Maize entry (3.2, 0.8) for a name not in the table.
Band(crop) ==
    CASE crop = "Beans" -> 14..22
      [] crop = "Coffee" -> 15..27
      [] crop = "Tea" -> 23..33
      [] crop = "Wheat" -> 18..32
      [] crop = "Rice" -> 32..52
      [] crop = "Sorghum" -> 15..25
      [] OTHER -> 24..40

\* A predict that was answered with a prediction object.
Predicted(r) == r.route = "predict" /\ r.pc = "done" /\ r.resp.status = 200

\* C21: every successful /api/predict response has a confidence in 85..100 and
\* a yieldEstimate inside base - variance .. base + variance of the requested
\* crop's table entry, and inside the Maize band when the crop name is not a
\* key of the table.
C21_PredictionInBand ==
    \A r \in reqs :
        Predicted(r) =>
            /\ r.resp.prediction.confidence \in 85..100
            /\ r.resp.prediction.yieldEstimate \in Band(r.body.crop)

\* C21, for the crop names Object.prototype does not define: the values are
\* inside the band.
C21_OwnOrPlainNameInBand ==
    \A r \in reqs :
        (Predicted(r) /\ r.body.crop \notin ObjectPrototypeKeys) =>
            /\ r.resp.prediction.confidence \in 85..99
            /\ r.resp.prediction.yieldEstimate \in Band(r.body.crop)

-----------------------------------------------------------------------------
(* Claims about what the requests leave alone                              *)

\* Every row of the table is in the table after the step, unchanged.
Kept(before, after) ==
    /\ Len(after) >= Len(before)
    /\ \A i \in 1..Len(before) : after[i] = before[i]

\* C22: no step changes or deletes an existing record: every User, Prediction
\* and Chat Message row is still there after the step with the same field
\* values, and a step that is not a step of the startup seeding leaves the
\* notifications as they are.
C22_ExistingRecordsKept ==
    [][/\ Kept(users, users')
       /\ Kept(predictions, predictions')
       /\ Kept(chat_history, chat_history')
       /\ (seedPc' = seedPc => notifications' = notifications)]_vars

\* A user has registered and predictions and chat turns were saved next to
\* the seeded rows.
C22_Witness ==
    /\ Len(users) >= 2
    /\ notifications = DefaultNotifications
    /\ Len(chat_history) >= 2
    /\ Len(predictions) >= 1

-----------------------------------------------------------------------------
(* Claims about errors                                                     *)

\* The program points at which a handler awaits the database.
StorePcs ==
    {"registerFindOne", "registerCreate", "loginFindOne", "predictCreate",
     "chatSaveUser", "chatSaveBot", "findAll", "findByPk", "healthAuthenticate"}

\* The text of a response holds the message of the error that was thrown.
Tells(resp, message) == message \in {resp.error, resp.message}

\* 500 with a generic message.
Generic500(resp) ==
    /\ resp.status = 500
    /\ resp.message \in {"Internal server error", "Something went wrong"}
    /\ ~Tells(resp, StoreError)

\* The handler of r takes a step in which its call to the database throws.
Throws(r) == r.pc \in StorePcs /\ ~dbUp /\ r \notin reqs'

\* The request r after the step.
After(r) == CHOOSE q \in reqs' : q.id = r.id

\* What the global error handler sends is 500, and outside development mode
\* it does not hold the error's own message.
ErrorHandlerHides ==
    \A r \in reqs :
        (r.pc = "done" /\ r.resp.by = "errorHandler") =>
            /\ r.resp.status = 500
            /\ NODE_ENV # "development" => ~Tells(r.resp, JsonSyntaxError)

\* C23: an error thrown inside any handler, a failure of the database
\* included, is answered 500 with a generic message, and outside development
\* mode no response holds the error's own message.
C23_HandlerErrorIs500 ==
    /\ [] ErrorHandlerHides
    /\ [][\A r \in reqs :
            Throws(r) =>
                /\ \E q \in reqs' : q.id = r.id
                /\ After(r).pc = "done"
                /\ Generic500(After(r).resp)]_vars

\* C23, for the handlers of /api/: a failure of the database in register,
\* login, predict, chat, notifications, my-predictions, chat-history or
\* profile is answered 500 with a generic message.
C23_ApiStoreFailureIs500 ==
    /\ [] ErrorHandlerHides
    /\ [][\A r \in reqs :
            (Throws(r) /\ r.route # "health") =>
                /\ \E q \in reqs' : q.id = r.id
                /\ After(r).pc = "done"
                /\ Generic500(After(r).resp)]_vars

\* The handler of /health takes a step for request r.
HealthStep(r) == r.route = "health" /\ r.pc = "healthAuthenticate" /\ r \notin reqs'

\* C24: GET /health is answered 200 with status 'OK' exactly when the database
\* answers at the moment of the check, and 503 with status 'ERROR' and
\* database 'Disconnected' when it does not; in both cases the step leaves the
\* tables, the seeding and every other request as they are, so that the
\* requests in flight are served on.
C24_HealthReflectsStore ==
    [][\A r \in reqs :
         HealthStep(r) =>
            /\ \E q \in reqs' : q.id = r.id
            /\ After(r).pc = "done"
            /\ IF dbUp
               THEN After(r).resp.status = 200 /\ After(r).resp.health = "OK"
               ELSE /\ After(r).resp.status = 503
                    /\ After(r).resp.health = "ERROR"
                    /\ After(r).resp.database = "Disconnected"
            /\ \A q \in reqs \ {r} : q \in reqs'
            /\ UNCHANGED <<users, notifications, predictions, chat_history, seedPc,
                           dbUp, hits, resetTime>>]_vars

\* /health arrived while another request was in flight; it was answered 503
\* and the other request was answered 200 by its handler.
C24_Witness ==
    \E h \in reqs, r \in reqs :
        /\ h.route = "health" /\ h.pc = "done" /\ h.resp = HealthError
        /\ r.route # "health" /\ r.id < h.id
        /\ r.pc = "done" /\ r.resp.status = 200 /\ r.resp.by = "handler"
        /\ dbUp

-----------------------------------------------------------------------------
(* Claims about requests no route takes                                    *)

\* The method and path of r match no declared route.
Unmatched(r) == r.route \in {"unmatched", "preflight"}

\* C25 as it is stated: every request that matches no declared route is
\* answered 404 with the list of the valid endpoints.
C25_UnmatchedIs404 ==
    \A r \in reqs : Unmatched(r) => r.pc = "done" /\ r.resp = EndpointNotFound

\* C25: a request that matches no declared route, that is not an OPTIONS
\* request, that the limiter lets pass and whose body parses, is answered 404
\* with the list of the valid endpoints, whatever its Authorization header;
\* an OPTIONS request is answered 204 by cors, one over the budget 429, one
\* whose body does not parse 500. For none of them does the gate, a field rule
\* or a handler run, and none changes a table or issues a token.
C25_PassedUnmatchedIs404 ==
    /\ [](\A r \in reqs :
            Unmatched(r) =>
                /\ r.pc = "done"
                /\ r.user = NoToken
                /\ r.resp.by \in {"notFound", "cors", "generalLimiter", "errorHandler"}
                /\ IF r.route = "preflight" THEN r.resp = Preflight
                   ELSE IF r.resp.by = "generalLimiter" THEN r.resp.status = 429
                   ELSE IF r.body.syntaxError
                   THEN r.resp = ErrorHandler(JsonSyntaxError)
                   ELSE r.resp = EndpointNotFound)
    /\ [][\A r \in reqs' \ reqs :
            Unmatched(r) =>
                UNCHANGED <<users, notifications, predictions, chat_history, issued>>]_vars

\* A request for a path no route declares came with a token that login had
\* issued and was answered 404.
C25_Witness ==
    \E r \in reqs :
        /\ r.route = "unmatched" /\ r.pc = "done" /\ r.resp = EndpointNotFound
        /\ r.header.present
        /\ \E t \in issued : r.header.parts = <<Word("Bearer"), TokenPart(t)>>

-----------------------------------------------------------------------------
(* Claims about the weather lookup                                         *)

\* The entry of the default region with every field within the jitter around
\* its baseline: 26 +/- 2, 68 +/- 5, 12 +/- 3, 15 +/- 5.
DefaultRegionEntry(w) ==
    /\ w.name = "Central Kenya"
    /\ w.temperature \in 24..28
    /\ w.humidity \in 63..73
    /\ w.wind_speed \in 9..15
    /\ w.precip \in 10..20

\* GET /api/weather was answered.
WeatherAnswered(r) == r.route = "weather" /\ r.pc = "done"

\* C26: GET /api/weather with a non-empty location that is not a key of the
\* table is answered with the entry of Central Kenya, each numeric field
\* within the jitter around that region's baseline; an empty or missing
\* location is answered 400.
C26_UnknownLocationIsDefault ==
    \A r \in reqs :
        WeatherAnswered(r) =>
            /\ r.body.location = "" => ValidationFailure(r.resp)
            /\ (r.body.location # "" /\ r.body.location \notin WeatherRegions) =>
                  r.resp.status = 200 /\ DefaultRegionEntry(r.resp.weather)

\* C26, for the locations Object.prototype does not define.
C26_PlainLocationIsDefault ==
    \A r \in reqs :
        WeatherAnswered(r) =>
            /\ r.body.location = "" => ValidationFailure(r.resp)
            /\ (r.body.location # "" /\ r.body.location \notin WeatherRegions
                /\ r.body.location \notin ObjectPrototypeKeys) =>
                  r.resp.status = 200 /\ DefaultRegionEntry(r.resp.weather)

-----------------------------------------------------------------------------
(* Claims about the startup seeding                                        *)

\* createDefaultUsers has returned.
SeedingFinished == seedPc \in {"done", "failed"}

\* C27: once the startup seeding has finished, a user admin@agripredict.com
\* with the role 'admin' and a user farmer@example.com exist and there are
\* notifications, whatever register requests were served while it ran.
C27_SeedingEstablishesDefaults ==
    SeedingFinished =>
        /\ \E i \in 1..Len(users) :
              users[i].email = AdminEmail /\ users[i].role = "admin"
        /\ \E i \in 1..Len(users) : users[i].email = FarmerEmail
        /\ notifications # <<>>

\* C27, when no register request has been received: the seeding runs to its
\* end and the defaults are there.
C27_UndisturbedSeeding ==
    (seedPc \in {"done", "failed"} /\ nreq = 0) =>
        /\ seedPc = "done"
        /\ \E i \in 1..Len(users) :
              users[i].email = AdminEmail /\ users[i].role = "admin"
        /\ \E i \in 1..Len(users) : users[i].email = FarmerEmail
        /\ notifications # <<>>

-----------------------------------------------------------------------------
(* Claims about the histories                                              *)

\* The rows of a table that user a owns.
Owns(table, a) == {table[i] : i \in {k \in 1..Len(table) : table[k].user_id = a}}

\* The table a history route reads.
HistoryTable(route) == IF route = "my-predictions" THEN predictions ELSE chat_history

\* The handler of a history route answers request r in this step.
HistoryStep(r) ==
    /\ r.route \in {"my-predictions", "chat-history"}
    /\ r.pc = "findAll" /\ r \notin reqs' /\ dbUp

\* The id of the user a request acts for: the id in its verified token.
Caller(r) == r.user.claims.id

\* C28: what /api/my-predictions and /api/chat-history send are the rows whose
\* user_id is the id in the caller's token, and no others; and a step taken
\* for a request of user B, or for a request of nobody, leaves the rows user
\* A owns as they are, so nothing B sends changes what A's histories return.
C28_HistoriesAreOwn ==
    [][/\ \A r \in reqs :
            HistoryStep(r) =>
                /\ \E q \in reqs' : q.id = r.id
                /\ After(r).resp.status = 200
                /\ Range(After(r).resp.rows) = Owns(HistoryTable(r.route), Caller(r))
       /\ \A a \in UserIds :
            (\A r \in reqs \ reqs' : Caller(r) # a) =>
                /\ Owns(predictions', a) = Owns(predictions, a)
                /\ Owns(chat_history', a) = Owns(chat_history, a)]_vars

\* A user read their predictions and got rows, while the table also holds a
\* row of another user.
C28_Witness ==
    \E r \in reqs :
        /\ r.route = "my-predictions" /\ r.pc = "done" /\ r.resp.status = 200
        /\ r.resp.rows # <<>>
        /\ \A i \in 1..Len(r.resp.rows) : r.resp.rows[i].user_id = Caller(r)
        /\ \E i \in 1..Len(predictions) : predictions[i].user_id # Caller(r)

-----------------------------------------------------------------------------
(* Claims about register followed by login                                 *)

\* A login was answered.
LoginAnswered(r) == r.route = "login" /\ r.pc = "done"

\* Row i of users is the account a register with password p created for the
\* address of login r.
RegisteredWith(i, r, p) ==
    /\ users[i].email = normalizeEmail(r.body.email)
    /\ users[i].password_hash = bcryptHash(p)

\* The login succeeded with a token and a user object for row i.
LoggedInAs(r, i) ==
    /\ r.resp.status = 200
    /\ r.resp.token.claims.id = users[i].id
    /\ r.resp.user.id = users[i].id

\* The id a register returns is the id of the row it stored.
RegisterReturnsRowId ==
    \A r \in reqs :
        (r.pc = "registerCreate" /\ r \notin reqs') =>
            /\ \E q \in reqs' : q.id = r.id
            /\ After(r).resp.status = 201 =>
                  /\ Len(users') = Len(users) + 1
                  /\ users'[Len(users')].id = After(r).resp.user.id
                  /\ users'[Len(users')].email = normalizeEmail(r.body.email)
                  /\ users'[Len(users')].password_hash = bcryptHash(r.body.password)

\* C29: after a successful register a login with the same password and the
\* same address in any letter case succeeds with a token that carries the id
\* the register returned, and a login with any other password is answered 401.
C29_RegisterLoginRoundTrip ==
    /\ [](\A r \in reqs : \A i \in 1..Len(users), p \in RoundTripPasswords :
            (LoginAnswered(r) /\ RegisteredWith(i, r, p)) =>
                IF r.body.password = p THEN LoggedInAs(r, i)
                ELSE r.resp.status = 401)
    /\ [][RegisterReturnsRowId]_vars

\* C29, with the field rule of the login and the key bytes of bcrypt taken
\* into account: a password shorter than six characters is answered 400, one
\* with the key bytes of the registered password succeeds, any other is
\* answered 401.
C29_RoundTripOnKeyBytes ==
    /\ [](\A r \in reqs : \A i \in 1..Len(users), p \in RoundTripPasswords :
            (LoginAnswered(r) /\ RegisteredWith(i, r, p)) =>
                IF Len(r.body.password) < 6 THEN ValidationFailure(r.resp)
                ELSE IF KeyBytes(r.body.password) = KeyBytes(p) THEN LoggedInAs(r, i)
                ELSE r.resp.status = 401)
    /\ [][RegisterReturnsRowId]_vars

-----------------------------------------------------------------------------
(* Claims about the responses                                              *)

\* The stages that can answer a request.
Responders ==
    {"cors", "authLimiter", "generalLimiter", "errorHandler",
     "handleValidationErrors", "authenticateToken", "handler", "notFound"}

\* Request number i is being served.
Pending(i) == \E r \in reqs : r.id = i /\ r.pc # "done"

\* Request number i has its response.
Responded(i) == \E r \in reqs : r.id = i /\ r.pc = "done" /\ r.sent = 1

\* C30: every request gets exactly one response. A request that is being
\* served has none yet and stands at a stage that is still to run; once a
\* stage has sent the response the request stands at no further stage, so
\* that no limiter, field rule, gate, handler, 404 handler or error handler
\* sends a second one; and every request that is being served is answered in
\* the end.
C30_ExactlyOneResponse ==
    /\ [](\A r \in reqs :
            /\ r.sent = IF r.pc = "done" THEN 1 ELSE 0
            /\ r.pc = "done" => r.resp.by \in Responders /\ r.resp.status # 0
            /\ r.pc # "done" => r.resp = NoResp)
    /\ [][\A r \in reqs :
            r.pc = "done" => \A q \in reqs' : q.id = r.id => q = r]_vars
    /\ \A i \in 1..MaxPathReqs : Pending(i) ~> Responded(i)

\* A login beyond the fifth of the window has its one response, from the
\* limiter.
C30_Witness ==
    \E r \in reqs :
        /\ r.route = "login" /\ r.pc = "done" /\ r.sent = 1
        /\ r.resp.by = "authLimiter" /\ r.id > AuthMax

====
